---- MODULE Spec2Model ----
(***************************************************************************)
(* Verification model of wzs-web: the CSRF token engine (web/csrf.rs), the *)
(* GraphQL guards and handler (graphql/*.rs), JWT creation and decoding    *)
(* (auth/jwt.rs) and the multipart upload handler (web/upload/*.rs).       *)
(*                                                                         *)
(* Strings are sequences of ASCII codes, byte arrays are sequences of      *)
(* 0..255, an Option is a sequence of length 0 (None) or 1 (Some).         *)
(***************************************************************************)
EXTENDS Integers, Sequences, FiniteSets, TLC

VARIABLES
    cfg,        \* CsrfConfig {secret, cookie_secure, cookie_http_only}
    tin,        \* input of the pure token functions (SpecToken)
    tout,       \* their output, <<>> until the function was applied
    jar,        \* the CookieJar the last csrf_handler call returned
    prev,       \* the csrf_handler call before the last one, None if none
    last,       \* the last csrf_handler call, None if none
    jin,        \* SpecJwt: issuer id, secrets, clock and cookie shape drawn
    jtok,       \* SpecJwt: the token create_jwt returned, None before
    jres,       \* SpecJwt: results of decode_jwt and of the extractions
    req,        \* SpecEdge, SpecUpload: the request an edge handler or the upload service is serving
    pc,         \* SpecEdge: the handler's position
    events,     \* SpecEdge: the calls the handler made so far, in order
    user,       \* SpecEdge: the Option<CurrentUser> extracted, None before
    store,      \* SpecEdge: the files the storage holds, {path, bytes}
    resp        \* SpecEdge: the response, None until the handler returned

tokenVars == <<tin, tout>>
csrfVars == <<jar, prev, last>>
jwtVars == <<jin, jtok, jres>>
edgeVars == <<req, pc, events, user, store, resp>>
vars == <<cfg, tokenVars, csrfVars, jwtVars, edgeVars>>

-----------------------------------------------------------------------------
(* Bounds of the model *)

\* number of distinct CSRF secrets a configuration may hold
NumSecrets == 2
\* number of distinct nonces rand::random() may draw
NumNonces == 2

-----------------------------------------------------------------------------
(* Options *)

None == <<>>
Some(x) == <<x>>
IsSome(o) == Len(o) = 1
Unwrap(o) == o[1]

-----------------------------------------------------------------------------
(* Characters (ASCII) *)

DOT == 46
CH_v == 118
CH_1 == 49
CH_2 == 50
CH_A == 65
CH_STAR == 42
CH_PAD == 61
CH_NONASCII == 200

STR_V1 == <<CH_v, CH_1>>
STR_V2 == <<CH_v, CH_2>>

Pow2(n) == CASE n = 0 -> 1 [] n = 1 -> 2 [] n = 2 -> 4 [] n = 3 -> 8
             [] n = 4 -> 16 [] n = 5 -> 32 [] n = 6 -> 64 [] n = 7 -> 128
             [] n = 8 -> 256 [] n = 9 -> 512 [] n = 10 -> 1024

\* bit k (0 = least significant) of byte b flipped
FlipBit(b, k) == IF (b \div Pow2(k)) % 2 = 1 THEN b - Pow2(k) ELSE b + Pow2(k)

-----------------------------------------------------------------------------
(* base64 URL_SAFE_NO_PAD *)

\* the URL-safe alphabet: A-Z a-z 0-9 - _
SextetToChar(v) ==
    IF v < 26 THEN 65 + v
    ELSE IF v < 52 THEN 97 + (v - 26)
    ELSE IF v < 62 THEN 48 + (v - 52)
    ELSE IF v = 62 THEN 45 ELSE 95

\* -1 for a byte outside the alphabet (the padding character included)
CharToSextet(c) ==
    IF c >= 65 /\ c <= 90 THEN c - 65
    ELSE IF c >= 97 /\ c <= 122 THEN c - 97 + 26
    ELSE IF c >= 48 /\ c <= 57 THEN c - 48 + 52
    ELSE IF c = 45 THEN 62
    ELSE IF c = 95 THEN 63 ELSE -1

\* URL_SAFE_NO_PAD.encode: 6 bits per output character, most significant
\* first, the last character padded with zero bits, no '='
B64Encode(bytes) ==
    LET n == Len(bytes)
        m == (n * 8 + 5) \div 6
        At(i) == IF i <= n THEN bytes[i] ELSE 0
    IN [j \in 1..m |->
          LET bit == 6 * (j - 1)
              b == bit \div 8
              o == bit % 8
              w == At(b + 1) * 256 + At(b + 2)
          IN SextetToChar((w \div Pow2(10 - o)) % 64)]

\* URL_SAFE_NO_PAD.decode: fails on a length of 1 mod 4, on a byte outside
\* the alphabet, and on non-zero trailing bits in the last symbol
B64Decode(chars) ==
    LET m == Len(chars)
        n == (m * 6) \div 8
        left == m * 6 - n * 8
        S(j) == IF j <= m THEN CharToSextet(chars[j]) ELSE 0
    IN IF m % 4 = 1 THEN [ok |-> FALSE, bytes |-> <<>>]
       ELSE IF \E j \in 1..m : CharToSextet(chars[j]) = -1
            THEN [ok |-> FALSE, bytes |-> <<>>]
       ELSE IF m > 0 /\ S(m) % Pow2(left) # 0
            THEN [ok |-> FALSE, bytes |-> <<>>]
       ELSE [ok |-> TRUE,
             bytes |-> [i \in 1..n |->
                 LET bit == 8 * (i - 1)
                     j == bit \div 6
                     o == bit % 6
                     w == S(j + 1) * 64 + S(j + 2)
                 IN (w \div Pow2(4 - o)) % 256]]

-----------------------------------------------------------------------------
(* HMAC-SHA256 *)

\* length in bytes of a nonce and of an HMAC-SHA256 tag
TAG_LEN == 32

\* Hmac<Sha256> of the hmac crate, as a deterministic keyed function into
\* 32 bytes that is injective in the key and in the message on the modelled
\* domain (messages and keys of at most 32 bytes)
HmacSha256(key, msg) ==
    LET K(i) == IF Len(key) = 0 THEN 0 ELSE key[((i - 1) % Len(key)) + 1]
        M(i) == IF i <= Len(msg) THEN msg[i] ELSE 0
    IN [i \in 1..TAG_LEN |->
          (K(i) * 31 + M(i) * 17 + i + Len(msg) * 5 + Len(key) * 3) % 256]

-----------------------------------------------------------------------------
(* str::split *)

\* token.split('.'): the fields between the separators, at least one
Split(s, sep) ==
    LET P == {i \in 1..Len(s) : s[i] = sep}
        k == Cardinality(P)
        Pos(j) == IF j = 0 THEN 0
                  ELSE IF j = k + 1 THEN Len(s) + 1
                  ELSE CHOOSE p \in P : Cardinality({q \in P : q < p}) = j - 1
    IN [j \in 1..(k + 1) |-> SubSeq(s, Pos(j - 1) + 1, Pos(j) - 1)]

-----------------------------------------------------------------------------
(* web/csrf.rs *)

\* mutant: the MAC taken over the encoded nonce instead of the raw nonce
generate_csrf_token_mac_over_b64(c, nonce) ==
    LET tag == HmacSha256(c.secret, B64Encode(nonce))
    IN STR_V1 \o <<DOT>> \o B64Encode(nonce) \o <<DOT>> \o B64Encode(tag)

\* generate_csrf_token, with the nonce rand::random() drew
generate_csrf_token(c, nonce) ==
    LET tag == HmacSha256(c.secret, nonce)
    IN STR_V1 \o <<DOT>> \o B64Encode(nonce) \o <<DOT>> \o B64Encode(tag)

\* mutant: a fourth segment is not looked for
verify_token_ignore_extra(c, token) ==
    LET parts == Split(token, DOT)
    IN IF Len(parts) < 3 THEN FALSE
       ELSE IF parts[1] # STR_V1 THEN FALSE
       ELSE LET nonce == B64Decode(parts[2])
                mac == B64Decode(parts[3])
            IN IF ~nonce.ok THEN FALSE
               ELSE IF ~mac.ok THEN FALSE
               ELSE IF Len(nonce.bytes) # TAG_LEN \/ Len(mac.bytes) # TAG_LEN
                    THEN FALSE
               ELSE HmacSha256(c.secret, nonce.bytes) = mac.bytes

\* mutant: a token is revoked when the client's cookie moves on to another
verify_token_revoked(c, token) ==
    LET parts == Split(token, DOT)
    IN IF Len(parts) # 3 \/ parts[1] # STR_V1 THEN FALSE
       ELSE LET nonce == B64Decode(parts[2])
                mac == B64Decode(parts[3])
            IN /\ nonce.ok /\ mac.ok
               /\ Len(nonce.bytes) = TAG_LEN /\ Len(mac.bytes) = TAG_LEN
               /\ HmacSha256(c.secret, nonce.bytes) = mac.bytes
               /\ store.cookie \in {None, Some(token)}

verify_token(c, token) ==
    LET parts == Split(token, DOT)
    IN IF Len(parts) < 3 THEN FALSE
       ELSE IF Len(parts) > 3 \/ parts[1] # STR_V1 THEN FALSE
       ELSE LET nonce == B64Decode(parts[2])
                mac == B64Decode(parts[3])
            IN IF ~nonce.ok THEN FALSE
               ELSE IF ~mac.ok THEN FALSE
               ELSE IF Len(nonce.bytes) # TAG_LEN \/ Len(mac.bytes) # TAG_LEN
                    THEN FALSE
               ELSE HmacSha256(c.secret, nonce.bytes) = mac.bytes

\* HeaderValue::to_str: only visible ASCII (and tab) converts
HeaderToStr(v) ==
    IF \A i \in 1..Len(v) : v[i] = 9 \/ (v[i] >= 32 /\ v[i] <= 126)
    THEN Some(v) ELSE None

\* mutant: the header is not compared with the cookie
validate_csrf_skip_compare(header, cookie, c) ==
    LET h0 == IF IsSome(header) THEN HeaderToStr(Unwrap(header)) ELSE None
        header_token == IF IsSome(h0) /\ Unwrap(h0) # <<>> THEN h0 ELSE None
    IN IF ~IsSome(header_token) THEN FALSE
       ELSE IF ~IsSome(cookie) THEN FALSE
       ELSE verify_token(c, Unwrap(cookie))

\* validate_csrf; header and cookie are Options of strings
validate_csrf(header, cookie, c) ==
    LET h0 == IF IsSome(header) THEN HeaderToStr(Unwrap(header)) ELSE None
        header_token == IF IsSome(h0) /\ Unwrap(h0) # <<>> THEN h0 ELSE None
    IN IF ~IsSome(header_token) THEN FALSE
       ELSE IF ~IsSome(cookie) THEN FALSE
       ELSE IF Unwrap(header_token) # Unwrap(cookie) THEN FALSE
       ELSE verify_token(c, Unwrap(cookie))

\* a cookie of a jar; attrs is None for a cookie a request carried
Cookie(name, value, attrs) == [name |-> name, value |-> value, attrs |-> attrs]

\* CookieJar::get(name).map(|c| c.value())
JarGet(j, name) ==
    IF \E c \in j : c.name = name
    THEN Some((CHOOSE c \in j : c.name = name).value)
    ELSE None

\* CookieJar::add: replaces the cookie of the same name
JarAdd(j, cookie) == {c \in j : c.name # cookie.name} \cup {cookie}

CSRF_COOKIE_NAME == "csrf"

set_csrf_cookie_with_flags(j, token, secure, http_only) ==
    JarAdd(j, Cookie(CSRF_COOKIE_NAME, token,
                     Some([path |-> "/", same_site |-> "Lax",
                           secure |-> secure, http_only |-> http_only])))

set_csrf_cookie(j, c, token) ==
    set_csrf_cookie_with_flags(j, token, c.cookie_secure, c.cookie_http_only)

\* jar.get(CSRF_COOKIE_NAME).map(|c| c.value().to_string())
CookieValue(j) == JarGet(j, CSRF_COOKIE_NAME)

\* mutant: a fresh token on every call, as an entry page would mint
csrf_handler_token_always_mint(c, j, nonce) == generate_csrf_token(c, nonce)

\* mutant: a present cookie is reused without being verified
csrf_handler_token_no_verify(c, j, nonce) ==
    LET got == CookieValue(j)
    IN IF IsSome(got) THEN Unwrap(got) ELSE generate_csrf_token(c, nonce)

\* the token csrf_handler answers with: the cookie's when it verifies,
\* a fresh one from the drawn nonce otherwise
csrf_handler_token(c, j, nonce) ==
    LET got == CookieValue(j)
        kept == IF IsSome(got) /\ verify_token(c, Unwrap(got)) THEN got ELSE None
    IN IF IsSome(kept) THEN Unwrap(kept) ELSE generate_csrf_token(c, nonce)

\* csrf_handler: (jar, (status, headers, json))
csrf_handler(c, j, nonce) ==
    LET token == csrf_handler_token(c, j, nonce)
    IN [jar |-> set_csrf_cookie(j, c, token),
        status |-> 200,
        cache_control |-> "no-store, no-cache, must-revalidate",
        content_type |-> "application/json",
        csrfToken |-> token]

-----------------------------------------------------------------------------
(* Inputs *)

\* a 32-byte secret, one per index
SecretOf(k) == [i \in 1..TAG_LEN |-> (k * 37 + i * 11) % 256]
Secrets == {SecretOf(k) : k \in 1..NumSecrets}

\* a 32-byte nonce, one per index
NonceOf(k) == [i \in 1..TAG_LEN |-> (k * 53 + i * 29) % 256]
Nonces == {NonceOf(k) : k \in 1..NumNonces}

Configs ==
    [secret : Secrets, cookie_secure : BOOLEAN, cookie_http_only : BOOLEAN]

-----------------------------------------------------------------------------
(* Token inputs: minted tokens and the ways of damaging one *)

\* s with its i-th element replaced by x
SetAt(s, i, x) == [j \in 1..Len(s) |-> IF j = i THEN x ELSE s[j]]

\* the MAC bytes of a well-formed token
MacOf(t) == B64Decode(Split(t, DOT)[3]).bytes
NonceB64Of(t) == Split(t, DOT)[2]
MacB64Of(t) == Split(t, DOT)[3]

Join3(a, b, c) == a \o <<DOT>> \o b \o <<DOT>> \o c

\* number of characters URL_SAFE_NO_PAD encodes n bytes to
B64Len(n) == (n * 8 + 5) \div 6

\* bit k (0..255) of the decoded MAC flipped, the token re-encoded
FlipMacBit(t, k) ==
    LET mac == MacOf(t)
        i == (k \div 8) + 1
    IN Join3(STR_V1, NonceB64Of(t),
             B64Encode(SetAt(mac, i, FlipBit(mac[i], k % 8))))

\* bit k (0..6) of the j-th character of the encoded MAC flipped
FlipMacChar(t, j, k) ==
    LET m == MacB64Of(t)
    IN Join3(STR_V1, NonceB64Of(t), SetAt(m, j, FlipBit(m[j], k)))

\* a token whose nonce has len bytes, with the MAC of that nonce under s
TokenWithNonceLen(s, nonce, len) ==
    LET n2 == [i \in 1..len |-> IF i <= Len(nonce) THEN nonce[i] ELSE 7]
    IN Join3(STR_V1, B64Encode(n2), B64Encode(HmacSha256(s, n2)))

\* the damaged forms of a valid token t minted from nonce n under secret s
Damaged(s, n, t) ==
    { [kind |-> "fourth", token |-> t \o <<DOT, CH_A>>],
      [kind |-> "fourth", token |-> t \o <<DOT>>],
      [kind |-> "prefix", token |-> Join3(STR_V2, NonceB64Of(t), MacB64Of(t))],
      [kind |-> "prefix", token |-> Join3(<<>>, NonceB64Of(t), MacB64Of(t))],
      [kind |-> "two_fields", token |-> STR_V1 \o <<DOT>> \o NonceB64Of(t)],
      [kind |-> "two_fields", token |-> NonceB64Of(t) \o <<DOT>> \o MacB64Of(t)],
      [kind |-> "one_field", token |-> <<>>],
      [kind |-> "one_field", token |-> STR_V1],
      [kind |-> "nonce_len", token |-> TokenWithNonceLen(s, n, TAG_LEN - 1)],
      [kind |-> "nonce_len", token |-> TokenWithNonceLen(s, n, TAG_LEN + 1)],
      [kind |-> "nonce_len", token |-> TokenWithNonceLen(s, n, 0)],
      [kind |-> "mac_len",
       token |-> Join3(STR_V1, NonceB64Of(t),
                       B64Encode(SubSeq(MacOf(t), 1, TAG_LEN - 1)))],
      [kind |-> "mac_len",
       token |-> Join3(STR_V1, NonceB64Of(t), B64Encode(MacOf(t) \o <<0>>))],
      [kind |-> "bad_char",
       token |-> Join3(STR_V1, SetAt(NonceB64Of(t), 1, CH_STAR), MacB64Of(t))],
      [kind |-> "bad_char",
       token |-> Join3(STR_V1, NonceB64Of(t), MacB64Of(t) \o <<CH_PAD>>)],
      [kind |-> "bad_char",
       token |-> Join3(STR_V1, NonceB64Of(t) \o <<CH_A>>, MacB64Of(t))],
      [kind |-> "trailing_bits",
       token |-> LET m == MacB64Of(t)
                 IN Join3(STR_V1, NonceB64Of(t),
                          SetAt(m, Len(m),
                                SextetToChar(
                                  FlipBit(CharToSextet(m[Len(m)]), 0))))] }

\* the tokens verify_token is applied to under configuration c
VerifyInputs(c) ==
    LET own == {[n |-> n, t |-> generate_csrf_token(c, n)] : n \in Nonces}
        all == {[s |-> s, n |-> n, t |-> generate_csrf_token([c EXCEPT !.secret = s], n)] :
                   s \in Secrets, n \in Nonces}
    IN {[op |-> "verify", kind |-> IF x.s = c.secret THEN "minted" ELSE "foreign",
         nonce |-> x.n, header |-> None, cookie |-> Some(x.t)] : x \in all}
       \cup UNION {{[op |-> "verify", kind |-> d.kind, nonce |-> x.n,
                     header |-> None, cookie |-> Some(d.token)] :
                       d \in Damaged(x.s, x.n, x.t)} : x \in all}
       \cup {[op |-> "verify", kind |-> "flip", nonce |-> x.n, header |-> None,
              cookie |-> Some(FlipMacBit(x.t, k))] :
                x \in own, k \in 0..(8 * TAG_LEN - 1)}
       \cup {[op |-> "verify", kind |-> "flip_char", nonce |-> x.n, header |-> None,
              cookie |-> Some(FlipMacChar(x.t, j, k))] :
                x \in own, j \in 1..B64Len(TAG_LEN), k \in 0..6}

\* the cookie values presented to validate_csrf and csrf_handler under c:
\* every minted token (own and foreign secret) and damaged forms of one
CookieValues(c) ==
    LET n1 == NonceOf(1)
        t1 == generate_csrf_token(c, n1)
    IN {generate_csrf_token([c EXCEPT !.secret = s], n) :
           s \in Secrets, n \in Nonces}
       \cup {FlipMacBit(t1, 0), t1 \o <<DOT, CH_A>>,
             Join3(STR_V2, NonceB64Of(t1), MacB64Of(t1)),
             TokenWithNonceLen(c.secret, n1, TAG_LEN - 1), <<>>}

HeaderValues(c) == CookieValues(c) \cup {<<CH_NONASCII>>, <<CH_v, 9>>}

ValidateInputs(c) ==
    {[op |-> "validate", kind |-> "pair", nonce |-> <<>>, header |-> h, cookie |-> k] :
        h \in {None} \cup {Some(v) : v \in HeaderValues(c)},
        k \in {None} \cup {Some(v) : v \in CookieValues(c)}}

GenerateInputs ==
    {[op |-> "generate", kind |-> "nonce", nonce |-> n, header |-> None, cookie |-> None] :
        n \in Nonces}

TokenInputs(c) == GenerateInputs \cup VerifyInputs(c) \cup ValidateInputs(c)

-----------------------------------------------------------------------------
(* SpecToken: the pure token functions applied to drawn inputs *)

\* the default cookie flags of CsrfConfig::from_env_with
DefaultConfigs == {c \in Configs : c.cookie_secure /\ c.cookie_http_only}

\* the variables of the other specifications at rest
TokenIdle == tin = None /\ tout = None
CsrfIdle == jar = {} /\ prev = None /\ last = None
JwtIdle == jin = None /\ jtok = None /\ jres = None
EdgeIdle ==
    /\ req = None /\ pc = "idle" /\ events = <<>>
    /\ user = None /\ store = {} /\ resp = None

InitToken ==
    /\ cfg \in DefaultConfigs
    /\ tin \in TokenInputs(cfg)
    /\ tout = None
    /\ CsrfIdle /\ JwtIdle /\ EdgeIdle

GenerateCsrfToken ==
    /\ tin.op = "generate" /\ tout = None
    /\ tout' = Some(generate_csrf_token(cfg, tin.nonce))
    /\ UNCHANGED <<cfg, tin, csrfVars, jwtVars, edgeVars>>

VerifyToken ==
    /\ tin.op = "verify" /\ tout = None
    /\ tout' = Some(verify_token(cfg, Unwrap(tin.cookie)))
    /\ UNCHANGED <<cfg, tin, csrfVars, jwtVars, edgeVars>>

ValidateCsrf ==
    /\ tin.op = "validate" /\ tout = None
    /\ tout' = Some(validate_csrf(tin.header, tin.cookie, cfg))
    /\ UNCHANGED <<cfg, tin, csrfVars, jwtVars, edgeVars>>

NextToken == GenerateCsrfToken \/ VerifyToken \/ ValidateCsrf

SpecToken == InitToken /\ [][NextToken]_vars

-----------------------------------------------------------------------------
(* SpecCsrf: the issue/refresh endpoint called again and again *)

\* the csrf cookies a request may carry under c: absent, malformed (a fourth
\* segment), wrong MAC (one bit flipped), and every token minted under c
HandlerCookies(c) ==
    LET t1 == generate_csrf_token(c, NonceOf(1))
    IN {None, Some(t1 \o <<DOT, CH_A>>), Some(FlipMacBit(t1, 0))}
       \cup {Some(generate_csrf_token(c, n)) : n \in Nonces}

\* a request jar holding the csrf cookie value v (attributes are not sent)
RequestJar(v) ==
    IF IsSome(v) THEN {Cookie(CSRF_COOKIE_NAME, Unwrap(v), None)} ELSE {}

InitCsrf ==
    /\ cfg \in DefaultConfigs
    /\ jar = {}
    /\ prev = None
    /\ last = None
    /\ TokenIdle /\ JwtIdle /\ EdgeIdle

CsrfHandler ==
    \E v \in HandlerCookies(cfg), nonce \in Nonces :
        LET r == csrf_handler(cfg, RequestJar(v), nonce)
        IN /\ jar' = r.jar
           /\ prev' = last
           /\ last' = Some([cookie_in |-> v, nonce |-> nonce, status |-> r.status,
                            csrfToken |-> r.csrfToken])
           /\ UNCHANGED <<cfg, tokenVars, jwtVars, edgeVars>>

NextCsrf == CsrfHandler

SpecCsrf == InitCsrf /\ [][NextCsrf]_vars

-----------------------------------------------------------------------------
(* Claims on the CSRF engine *)

Applied(op) == tin # None /\ tin.op = op /\ tout # None

\* C1: validate_csrf returns true iff the header is present and non-empty,
\* the cookie is present, both are byte-equal and the cookie verifies.
ThmC1_ValidateIff ==
    Applied("validate") =>
        (Unwrap(tout) <=>
            /\ IsSome(tin.header)
            /\ Unwrap(tin.header) # <<>>
            /\ IsSome(tin.cookie)
            /\ Unwrap(tin.header) = Unwrap(tin.cookie)
            /\ verify_token(cfg, Unwrap(tin.cookie)))

WitC1_ValidatePairAccepted ==
    /\ Applied("validate")
    /\ IsSome(tin.header) /\ tin.header = tin.cookie
    /\ Unwrap(tout)

\* the token format of the data model: v1.<nonce>.<mac>, both 32 bytes,
\* the MAC being HMAC-SHA256 of the nonce under the secret
WellFormedSigned(c, t) ==
    LET parts == Split(t, DOT)
    IN /\ Len(parts) = 3
       /\ parts[1] = STR_V1
       /\ B64Decode(parts[2]).ok /\ Len(B64Decode(parts[2]).bytes) = TAG_LEN
       /\ B64Decode(parts[3]).ok /\ Len(B64Decode(parts[3]).bytes) = TAG_LEN
       /\ B64Decode(parts[3]).bytes = HmacSha256(c.secret, B64Decode(parts[2]).bytes)

\* C2: verify_token accepts exactly the well-formed tokens signed under the
\* secret; a flipped MAC bit or an appended fourth segment is rejected.
ThmC2_VerifyIff ==
    Applied("verify") =>
        /\ Unwrap(tout) <=> WellFormedSigned(cfg, Unwrap(tin.cookie))
        /\ tin.kind \in {"flip", "flip_char", "fourth"} => ~Unwrap(tout)
        /\ tin.kind = "minted" => Unwrap(tout)

WitC2_FlippedMacRejected ==
    /\ Applied("verify")
    /\ tin.kind = "flip"
    /\ ~Unwrap(tout)

\* C3: a minted token verifies, has three fields, the first "v1", and a
\* nonce and a MAC of 32 bytes each.
ThmC3_MintedVerifies ==
    Applied("generate") =>
        LET t == Unwrap(tout)
            parts == Split(t, DOT)
        IN /\ verify_token(cfg, t)
           /\ Len(parts) = 3
           /\ parts[1] = STR_V1
           /\ B64Decode(parts[2]).ok /\ Len(B64Decode(parts[2]).bytes) = TAG_LEN
           /\ B64Decode(parts[3]).ok /\ Len(B64Decode(parts[3]).bytes) = TAG_LEN

WitC3_Minted ==
    /\ Applied("generate")
    /\ Len(Unwrap(tout)) = 4 + 2 * B64Len(TAG_LEN)

SameCookieTwice ==
    /\ IsSome(prev) /\ IsSome(last)
    /\ IsSome(Unwrap(last).cookie_in)
    /\ Unwrap(prev).cookie_in = Unwrap(last).cookie_in

\* C4 as claimed: two csrf_handler calls with the same cookie return the
\* same token, whatever the cookie.
CexC4_AnyCookieIdempotent ==
    SameCookieTwice => Unwrap(prev).csrfToken = Unwrap(last).csrfToken

\* C4: two csrf_handler calls with the same verifying cookie return the same
\* token, the cookie's.
ThmC4_ValidCookieIdempotent ==
    (SameCookieTwice /\ verify_token(cfg, Unwrap(Unwrap(last).cookie_in))) =>
        /\ Unwrap(prev).csrfToken = Unwrap(last).csrfToken
        /\ Unwrap(last).csrfToken = Unwrap(Unwrap(last).cookie_in)

WitC4_ValidCookieTwice ==
    /\ SameCookieTwice
    /\ verify_token(cfg, Unwrap(Unwrap(last).cookie_in))
    /\ Unwrap(prev).nonce # Unwrap(last).nonce
    /\ Unwrap(prev).csrfToken = Unwrap(last).csrfToken

\* C5: after csrf_handler the body token is the returned jar's csrf cookie,
\* it verifies, and it is the incoming cookie iff that was present and
\* verified; otherwise it is the token minted from the drawn nonce.
ThmC5_HandlerToken ==
    IsSome(last) =>
        LET L == Unwrap(last)
            reuse == IsSome(L.cookie_in) /\ verify_token(cfg, Unwrap(L.cookie_in))
        IN /\ L.status = 200
           /\ JarGet(jar, CSRF_COOKIE_NAME) = Some(L.csrfToken)
           /\ Cardinality({c \in jar : c.name = CSRF_COOKIE_NAME}) = 1
           /\ verify_token(cfg, L.csrfToken)
           /\ (IsSome(L.cookie_in) /\ L.csrfToken = Unwrap(L.cookie_in)) <=> reuse
           /\ ~reuse => L.csrfToken = generate_csrf_token(cfg, L.nonce)

WitC5_InvalidCookieReplaced ==
    /\ IsSome(last)
    /\ IsSome(Unwrap(last).cookie_in)
    /\ ~verify_token(cfg, Unwrap(Unwrap(last).cookie_in))
    /\ Unwrap(last).csrfToken # Unwrap(Unwrap(last).cookie_in)
    /\ JarGet(jar, CSRF_COOKIE_NAME) = Some(Unwrap(last).csrfToken)

-----------------------------------------------------------------------------
(* auth/jwt.rs *)

\* Duration::hours(48), in seconds
JWT_LIFETIME == 172800
\* the leeway of Validation::default(), in seconds
JWT_LEEWAY == 60

\* u64::to_string
RECURSIVE ToDecimal(_)
ToDecimal(n) ==
    IF n < 10 THEN <<48 + n>> ELSE Append(ToDecimal(n \div 10), 48 + (n % 10))

\* the bytes the HS256 signature covers: header and claims
SigningInput(alg, sub, exp) ==
    (IF alg = "HS256" THEN <<1>> ELSE <<2>>) \o sub \o <<DOT>> \o ToDecimal(exp)

\* jsonwebtoken::encode: the token carries header, claims and signature
JwtEncode(alg, sub, exp, key) ==
    [form |-> "jwt", alg |-> alg, sub |-> sub, exp |-> exp,
     sig |-> HmacSha256(key, SigningInput(alg, sub, exp))]

\* a string that is no JWT ("not-a-valid-token")
GarbageToken == [form |-> "garbage", alg |-> "", sub |-> <<>>, exp |-> 0, sig |-> <<>>]

create_jwt(id, secret, now) ==
    LET expiration == now + JWT_LIFETIME
        claims == [sub |-> ToDecimal(id), exp |-> expiration]
    IN JwtEncode("HS256", claims.sub, claims.exp, secret)

JwtErr(e) == [ok |-> FALSE, err |-> e, sub |-> <<>>, exp |-> 0]

\* mutant: the signature is not verified
decode_jwt_no_signature(token, secret, now) ==
    IF token.form # "jwt" THEN JwtErr("InvalidToken")
    ELSE IF token.alg # "HS256" THEN JwtErr("InvalidAlgorithm")
    ELSE IF token.exp < now - JWT_LEEWAY THEN JwtErr("ExpiredSignature")
    ELSE [ok |-> TRUE, err |-> "", sub |-> token.sub, exp |-> token.exp]

\* decode_jwt: jsonwebtoken::decode under Validation::default() (HS256,
\* signature, exp with leeway)
decode_jwt(token, secret, now) ==
    IF token.form # "jwt" THEN JwtErr("InvalidToken")
    ELSE IF token.alg # "HS256" THEN JwtErr("InvalidAlgorithm")
    ELSE IF HmacSha256(secret, SigningInput(token.alg, token.sub, token.exp)) # token.sig
         THEN JwtErr("InvalidSignature")
    ELSE IF token.exp < now - JWT_LEEWAY THEN JwtErr("ExpiredSignature")
    ELSE [ok |-> TRUE, err |-> "", sub |-> token.sub, exp |-> token.exp]

-----------------------------------------------------------------------------
(* graphql/context.rs, graphql/guard.rs: the principal from the cookie *)

IsDigits(str) == Len(str) > 0 /\ \A i \in 1..Len(str) : str[i] >= 48 /\ str[i] <= 57

\* str::parse of a non-negative decimal
RECURSIVE FromDecimal(_)
FromDecimal(str) ==
    IF Len(str) = 0 THEN 0
    ELSE FromDecimal(SubSeq(str, 1, Len(str) - 1)) * 10 + (str[Len(str)] - 48)

\* the caller's closure: |sub| sub.parse::<i64>().ok(), or CurrentUser::new
ParseSubject(mode, sub) ==
    IF mode = "i64"
    THEN IF IsDigits(sub) THEN Some(FromDecimal(sub)) ELSE None
    ELSE Some([subject |-> sub])

\* serde_json::from_str::<Value>(cookie.value()).ok()
JsonFromStr(v) == IF v.json THEN Some(v) ELSE None

\* Value::get("token")?.as_str(): the member of an object, when a string
JsonTokenStr(v) ==
    IF v.kind = "object" /\ IsSome(v.token) /\ Unwrap(v.token).str
    THEN Some(Unwrap(v.token).jwt) ELSE None

\* mutant: a missing secret is taken as the empty secret
extract_jwt_subject_default_secret(j, jwt_secret, cookie_name, mode, now) ==
    LET secret == IF IsSome(jwt_secret) THEN Unwrap(jwt_secret) ELSE <<>>
        c == JarGet(j, cookie_name)
        v == IF IsSome(c) THEN JsonFromStr(Unwrap(c)) ELSE None
        token == IF IsSome(v) THEN JsonTokenStr(Unwrap(v)) ELSE None
        d == decode_jwt(Unwrap(token), secret, now)
    IN IF IsSome(token) /\ d.ok THEN ParseSubject(mode, d.sub) ELSE None

extract_jwt_subject(j, jwt_secret, cookie_name, mode, now) ==
    IF ~IsSome(jwt_secret) THEN None
    ELSE LET secret == Unwrap(jwt_secret)
             c == JarGet(j, cookie_name)
             v == IF IsSome(c) THEN JsonFromStr(Unwrap(c)) ELSE None
             token == IF IsSome(v) THEN JsonTokenStr(Unwrap(v)) ELSE None
             d == decode_jwt(Unwrap(token), secret, now)
             claims == IF IsSome(token) /\ d.ok THEN Some(d) ELSE None
         IN IF IsSome(claims) THEN ParseSubject(mode, Unwrap(claims).sub) ELSE None

validate_jwt_guard(j, jwt_secret, cookie_name, mode, now) ==
    IF ~IsSome(jwt_secret) THEN None
    ELSE LET secret == Unwrap(jwt_secret)
             cookie == JarGet(j, cookie_name)
         IN IF ~IsSome(cookie) THEN None
            ELSE LET json == JsonFromStr(Unwrap(cookie))
                 IN IF ~IsSome(json) THEN None
                    ELSE LET token == JsonTokenStr(Unwrap(json))
                         IN IF ~IsSome(token) THEN None
                            ELSE LET claims == decode_jwt(Unwrap(token), secret, now)
                                 IN IF ~claims.ok THEN None
                                    ELSE ParseSubject(mode, claims.sub)

\* extract_current_user: the subject wrapped in CurrentUser
extract_current_user(j, jwt_secret, cookie_name, now) ==
    extract_jwt_subject(j, jwt_secret, cookie_name, "principal", now)

-----------------------------------------------------------------------------
(* SpecJwt: a token is created, then decoded and extracted from a cookie *)

\* "" (JWT_SECRET unset), "s", "w"
JwtSecrets == {<<>>, <<115>>, <<119>>}
JwtIds == {0, 42, 1234567}
JwtNows == {1700000000}
\* seconds between create_jwt and the request that carries the token
JwtDelays == {0, JWT_LIFETIME + JWT_LEEWAY, JWT_LIFETIME + JWT_LEEWAY + 1}

AUTH_COOKIE == "auth_token"

\* the cookie shapes; only "token_cookie" and "text_subject" hold a JWT in
\* {"token": "<jwt>"}
FailingShapes ==
    {"missing", "other_name", "not_json", "json_array", "json_string",
     "no_token_field", "token_not_string", "malformed_token", "bad_alg"}
CookieShapes == {"token_cookie", "text_subject"} \cup FailingShapes

JsonObject(member) == [json |-> TRUE, kind |-> "object", token |-> member]
JsonOther(kind) == [json |-> TRUE, kind |-> kind, token |-> None]
NotJson == [json |-> FALSE, kind |-> "", token |-> None]

\* the request jar of a cookie shape around token tok signed with key
ShapedJar(shape, tok, key) ==
    CASE shape = "missing" -> {}
      [] shape = "other_name" ->
            {Cookie("session", JsonObject(Some([str |-> TRUE, jwt |-> tok])), None)}
      [] shape = "not_json" -> {Cookie(AUTH_COOKIE, NotJson, None)}
      [] shape = "json_array" -> {Cookie(AUTH_COOKIE, JsonOther("array"), None)}
      [] shape = "json_string" -> {Cookie(AUTH_COOKIE, JsonOther("string"), None)}
      [] shape = "no_token_field" -> {Cookie(AUTH_COOKIE, JsonObject(None), None)}
      [] shape = "token_not_string" ->
            {Cookie(AUTH_COOKIE, JsonObject(Some([str |-> FALSE, jwt |-> tok])), None)}
      [] shape = "malformed_token" ->
            {Cookie(AUTH_COOKIE, JsonObject(Some([str |-> TRUE, jwt |-> GarbageToken])), None)}
      [] shape = "bad_alg" ->
            {Cookie(AUTH_COOKIE,
                    JsonObject(Some([str |-> TRUE,
                                     jwt |-> JwtEncode("HS384", tok.sub, tok.exp, key)])),
                    None)}
      [] shape = "text_subject" ->
            {Cookie(AUTH_COOKIE,
                    JsonObject(Some([str |-> TRUE,
                                     jwt |-> JwtEncode("HS256", <<97, 98>>, tok.exp, key)])),
                    None)}
      [] OTHER ->
            {Cookie(AUTH_COOKIE, JsonObject(Some([str |-> TRUE, jwt |-> tok])), None)}

JwtInputs ==
    {x \in [id : JwtIds, issuer : JwtSecrets, jwt_secret : {None} \cup {Some(k) : k \in JwtSecrets},
            now : JwtNows, dt : JwtDelays, shape : CookieShapes] :
        x.shape # "token_cookie" => (x.id = 42 /\ x.dt = 0)}

NoJwtResults == [decode |-> None, extract |-> None, guard |-> None, user |-> None]

InitJwt ==
    /\ cfg \in {c \in DefaultConfigs : c.secret = SecretOf(1)}
    /\ jin \in JwtInputs
    /\ jtok = None
    /\ jres = NoJwtResults
    /\ TokenIdle /\ CsrfIdle /\ EdgeIdle

CreateJwt ==
    /\ jtok = None
    /\ jtok' = Some(create_jwt(jin.id, jin.issuer, jin.now))
    /\ UNCHANGED <<cfg, jin, jres, tokenVars, csrfVars, edgeVars>>

JwtJar == ShapedJar(jin.shape, Unwrap(jtok), jin.issuer)

DecodeJwt ==
    /\ IsSome(jtok) /\ IsSome(jin.jwt_secret) /\ jres.decode = None
    /\ jres' = [jres EXCEPT !.decode =
                   Some(decode_jwt(Unwrap(jtok), Unwrap(jin.jwt_secret), jin.now + jin.dt))]
    /\ UNCHANGED <<cfg, jin, jtok, tokenVars, csrfVars, edgeVars>>

ExtractJwtSubject ==
    /\ IsSome(jtok) /\ jres.extract = None
    /\ jres' = [jres EXCEPT !.extract =
                   Some(extract_jwt_subject(JwtJar, jin.jwt_secret, AUTH_COOKIE, "i64",
                                            jin.now + jin.dt))]
    /\ UNCHANGED <<cfg, jin, jtok, tokenVars, csrfVars, edgeVars>>

ValidateJwtGuard ==
    /\ IsSome(jtok) /\ jres.guard = None
    /\ jres' = [jres EXCEPT !.guard =
                   Some(validate_jwt_guard(JwtJar, jin.jwt_secret, AUTH_COOKIE, "i64",
                                           jin.now + jin.dt))]
    /\ UNCHANGED <<cfg, jin, jtok, tokenVars, csrfVars, edgeVars>>

ExtractCurrentUser ==
    /\ IsSome(jtok) /\ jres.user = None
    /\ jres' = [jres EXCEPT !.user =
                   Some(extract_jwt_subject(JwtJar, jin.jwt_secret, AUTH_COOKIE, "principal",
                                            jin.now + jin.dt))]
    /\ UNCHANGED <<cfg, jin, jtok, tokenVars, csrfVars, edgeVars>>

NextJwt ==
    CreateJwt \/ DecodeJwt \/ ExtractJwtSubject \/ ValidateJwtGuard \/ ExtractCurrentUser

SpecJwt == InitJwt /\ [][NextJwt]_vars

-----------------------------------------------------------------------------
(* Claims on the authentication engine *)

\* the token is used after exp + leeway
TokenExpired == jin.dt > JWT_LIFETIME + JWT_LEEWAY

\* the failures of the claim: no secret, a cookie without a JWT in a string
\* field `token`, another secret, an expired token
MustFail ==
    \/ ~IsSome(jin.jwt_secret)
    \/ jin.shape \in FailingShapes
    \/ jin.jwt_secret # Some(jin.issuer)
    \/ TokenExpired

\* C8: extraction returns no principal when no secret is configured, the
\* cookie is missing or is no JSON object with a string `token`, the token
\* is malformed, signed with another secret or expired, or the subject
\* parser returns none; a principal implies the token decoded.
ThmC8_ExtractionFailsSilently ==
    IsSome(jtok) =>
        /\ jres.extract # None =>
              /\ MustFail => Unwrap(jres.extract) = None
              /\ jin.shape = "text_subject" => Unwrap(jres.extract) = None
              /\ IsSome(Unwrap(jres.extract)) =>
                    decode_jwt(Unwrap(jtok), Unwrap(jin.jwt_secret), jin.now + jin.dt).ok
        /\ jres.guard # None =>
              /\ MustFail => Unwrap(jres.guard) = None
              /\ jin.shape = "text_subject" => Unwrap(jres.guard) = None
              /\ IsSome(Unwrap(jres.guard)) =>
                    decode_jwt(Unwrap(jtok), Unwrap(jin.jwt_secret), jin.now + jin.dt).ok
        /\ jres.user # None =>
              /\ MustFail => Unwrap(jres.user) = None

WitC8_NoSecretNoPrincipal ==
    /\ IsSome(jtok)
    /\ jin.jwt_secret = None /\ jin.shape = "token_cookie" /\ jin.issuer = <<>>
    /\ jres.extract = Some(None) /\ jres.guard = Some(None) /\ jres.user = Some(None)

\* the decimal string of n: digits only, no leading zero, value n
IsDecimalOf(str, n) ==
    /\ IsDigits(str)
    /\ Len(str) > 1 => str[1] # 48
    /\ FromDecimal(str) = n

\* C9: decoding a created token under the issuing secret yields the decimal
\* id as subject, under any other secret it fails; the cookie
\* {"token": jwt} yields that principal, or none under another secret.
ThmC9_JwtRoundTrip ==
    IsSome(jtok) =>
        /\ jres.decode # None =>
              LET d == Unwrap(jres.decode)
              IN IF jin.jwt_secret = Some(jin.issuer)
                 THEN ~TokenExpired =>
                         /\ d.ok
                         /\ IsDecimalOf(d.sub, jin.id)
                         /\ d.exp = jin.now + JWT_LIFETIME
                 ELSE ~d.ok
        /\ (jres.user # None /\ jin.shape = "token_cookie") =>
              LET u == Unwrap(jres.user)
              IN IF jin.jwt_secret = Some(jin.issuer)
                 THEN ~TokenExpired =>
                         (IsSome(u) /\ IsDecimalOf(Unwrap(u).subject, jin.id))
                 ELSE u = None

WitC9_RoundTrip42 ==
    /\ IsSome(jtok)
    /\ jin.id = 42 /\ jin.jwt_secret = Some(jin.issuer) /\ jin.shape = "token_cookie"
    /\ jres.decode # None /\ Unwrap(jres.decode).ok
    /\ Unwrap(jres.decode).sub = <<52, 50>>
    /\ jres.user = Some(Some([subject |-> <<52, 50>>]))

-----------------------------------------------------------------------------
(* Strings of the upload engine *)

S_image_jpeg == <<105, 109, 97, 103, 101, 47, 106, 112, 101, 103>>
S_image_jpg == <<105, 109, 97, 103, 101, 47, 106, 112, 103>>
S_image_png == <<105, 109, 97, 103, 101, 47, 112, 110, 103>>
S_image_gif == <<105, 109, 97, 103, 101, 47, 103, 105, 102>>
S_image_prefix == <<105, 109, 97, 103, 101, 47>>
S_IMAGE_JPEG_UPPER == <<73, 77, 65, 71, 69, 47, 74, 80, 69, 71>>
S_text_plain == <<116, 101, 120, 116, 47, 112, 108, 97, 105, 110>>
S_jpg == <<106, 112, 103>>
S_png == <<112, 110, 103>>
S_gif == <<103, 105, 102>>
S_bin == <<98, 105, 110>>
S_dot_bin == <<46, 98, 105, 110>>
S_upload_bin == <<117, 112, 108, 111, 97, 100, 46, 98, 105, 110>>
S_files == <<102, 105, 108, 101, 115>>
S_images == <<105, 109, 97, 103, 101, 115>>
S_readme == <<100, 111, 99, 115, 47, 114, 101, 97, 100, 109, 101, 46, 116, 120, 116>>
S_photo == <<97, 46, 106, 112, 103>>
S_root == <<47, 117, 112>>
SLASH == 47
UNDERSCORE == 95

\* mutant: the case is kept
ToAsciiLowercase_keep_case(str) == str

\* str::to_ascii_lowercase
ToAsciiLowercase(str) ==
    [i \in 1..Len(str) |-> IF str[i] >= 65 /\ str[i] <= 90 THEN str[i] + 32 ELSE str[i]]

StartsWith(str, pre) == Len(str) >= Len(pre) /\ SubSeq(str, 1, Len(pre)) = pre

\* str::trim: white space stripped at both ends
Trim(str) ==
    LET keep == {i \in 1..Len(str) : str[i] \notin {9, 10, 11, 12, 13, 32}}
    IN IF keep = {} THEN <<>>
       ELSE SubSeq(str, CHOOSE i \in keep : \A j \in keep : i <= j,
                        CHOOSE i \in keep : \A j \in keep : i >= j)

\* mutant: only the first occurrence is replaced (str::replacen(from, to, 1))
ReplaceChar_first_only(str, from, to) ==
    [i \in 1..Len(str) |->
        IF str[i] = from /\ (\A j \in 1..(i - 1) : str[j] # from) THEN to ELSE str[i]]

\* str::replace(from, to) for single characters
ReplaceChar(str, from, to) ==
    [i \in 1..Len(str) |-> IF str[i] = from THEN to ELSE str[i]]

\* mutant: a single leading ch is stripped (str::strip_prefix)
TrimStartMatches_single(str, ch) ==
    IF str # <<>> /\ str[1] = ch THEN SubSeq(str, 2, Len(str)) ELSE str

\* str::trim_start_matches(ch): every leading ch stripped
TrimStartMatches(str, ch) ==
    LET keep == {i \in 1..Len(str) : str[i] # ch}
    IN IF keep = {} THEN <<>>
       ELSE SubSeq(str, CHOOSE i \in keep : \A j \in keep : i <= j, Len(str))

\* mutant: only the first match is replaced (str::replacen("..", "_", 1))
ReplaceDotDot_first_only(str) ==
    LET at == {i \in 1..(Len(str) - 1) : str[i] = DOT /\ str[i + 1] = DOT}
    IN IF at = {} THEN str
       ELSE LET i == CHOOSE k \in at : \A m \in at : k <= m
            IN SubSeq(str, 1, i - 1) \o <<UNDERSCORE>> \o SubSeq(str, i + 2, Len(str))

\* str::replace("..", "_"): non-overlapping matches, left to right
RECURSIVE ReplaceDotDot(_)
ReplaceDotDot(str) ==
    IF Len(str) < 2 THEN str
    ELSE IF str[1] = DOT /\ str[2] = DOT
         THEN <<UNDERSCORE>> \o ReplaceDotDot(SubSeq(str, 3, Len(str)))
    ELSE <<str[1]>> \o ReplaceDotDot(SubSeq(str, 2, Len(str)))

-----------------------------------------------------------------------------
(* image/processor.rs, image/image_rs_processor.rs *)

\* ImageProcessor::is_supported of the implementations: ImageRsProcessor
\* ("image_rs"), the stub accepting every type ("any"), the stub accepting
\* none ("never"), the stub accepting image/* ("prefix")
is_supported(image, content_type) ==
    CASE image.kind = "image_rs" ->
            ToAsciiLowercase(content_type) \in
                {S_image_gif, S_image_jpeg, S_image_jpg, S_image_png}
      [] image.kind = "any" -> TRUE
      [] image.kind = "never" -> FALSE
      [] OTHER -> StartsWith(ToAsciiLowercase(content_type), S_image_prefix)

\* ImageProcessor::resize_same_format: an error (decode or encode failure,
\* unsupported type), or the bytes answered: re-encoded by ImageRsProcessor,
\* the fixed output of the "prefix" stub, the input of the "any" stub
resize_same_format(image, img_bytes, content_type, max_w, max_h) ==
    IF ~image.resize_ok THEN [ok |-> FALSE, bytes |-> <<>>]
    ELSE IF image.kind = "image_rs"
            /\ ToAsciiLowercase(content_type) \notin
                  {S_image_gif, S_image_jpeg, S_image_jpg, S_image_png}
         THEN [ok |-> FALSE, bytes |-> <<>>]
    ELSE IF image.kind = "image_rs" THEN [ok |-> TRUE, bytes |-> <<255, 216>> \o img_bytes]
    ELSE IF image.kind = "prefix" THEN [ok |-> TRUE, bytes |-> <<82>>]
    ELSE [ok |-> TRUE, bytes |-> img_bytes]

-----------------------------------------------------------------------------
(* web/upload/local_storage.rs *)

\* LocalFileStorage::save_file as one step: the path written and the files
\* afterwards. PathBuf::join keeps an absolute argument as it is; an empty
\* path names the root directory itself, which fs::write cannot write; nothing
\* is written when the file system refuses
save_file(storage, files, rel_path, bytes) ==
    LET safe == ReplaceDotDot(TrimStartMatches(rel_path, SLASH))
        full == IF safe # <<>> /\ safe[1] = SLASH THEN safe
                ELSE storage.root \o <<SLASH>> \o safe
    IN IF storage.fail \/ safe = <<>> THEN [ok |-> FALSE, abs |-> full, files |-> files]
       ELSE [ok |-> TRUE, abs |-> full,
             files |-> {f \in files : f.path # full} \cup {[path |-> full, bytes |-> bytes]}]

-----------------------------------------------------------------------------
(* web/upload/uploader.rs *)

UploadErr(files, calls, resized, saved) ==
    [ok |-> FALSE, key |-> <<>>, abs |-> <<>>, n |-> 0, ct |-> <<>>,
     files |-> files, calls |-> calls, resized |-> resized, saved |-> saved]

\* mutant: the image branch stores the original bytes, before the resize
upload_save_before_resize(svc, files, filename, content_type, bytes, id, yyyymm) ==
    LET is_img == is_supported(svc.image, content_type)
    IN IF is_img
       THEN LET lower == ToAsciiLowercase(content_type)
                ext == CASE lower \in {S_image_jpeg, S_image_jpg} -> S_jpg
                         [] lower = S_image_png -> S_png
                         [] lower = S_image_gif -> S_gif
                         [] OTHER -> S_bin
                norm_ct == CASE lower \in {S_image_jpeg, S_image_jpg} -> S_image_jpeg
                             [] lower = S_image_png -> S_image_png
                             [] lower = S_image_gif -> S_image_gif
                             [] OTHER -> content_type
                resized == resize_same_format(svc.image, bytes, norm_ct,
                                              svc.resize.max_w, svc.resize.max_h)
                key == yyyymm \o <<SLASH>> \o id \o <<DOT>> \o ext
                saved == save_file(svc.storage, files, key, bytes)
                rargs == <<[bytes |-> bytes, ct |-> norm_ct, max_w |-> svc.resize.max_w,
                            max_h |-> svc.resize.max_h]>>
                sargs == <<[key |-> key, bytes |-> bytes]>>
            IN IF ~resized.ok
               THEN UploadErr(saved.files, <<"is_supported", "save", "resize_same_format">>,
                              rargs, sargs)
               ELSE IF ~saved.ok
               THEN UploadErr(saved.files, <<"is_supported", "resize_same_format", "save">>,
                              rargs, sargs)
               ELSE [ok |-> TRUE, key |-> key, abs |-> saved.abs,
                     n |-> Len(resized.bytes), ct |-> norm_ct, files |-> saved.files,
                     calls |-> <<"is_supported", "resize_same_format", "save">>,
                     resized |-> rargs, saved |-> sargs]
       ELSE LET safe == ReplaceChar(Trim(filename), SLASH, UNDERSCORE)
                name == IF safe = <<>> THEN id \o S_dot_bin ELSE safe
                key == svc.dirs.file_dir \o <<SLASH>> \o name
                saved == save_file(svc.storage, files, key, bytes)
                sargs == <<[key |-> key, bytes |-> bytes]>>
            IN IF ~saved.ok THEN UploadErr(saved.files, <<"is_supported", "save">>, <<>>, sargs)
               ELSE [ok |-> TRUE, key |-> key, abs |-> saved.abs, n |-> Len(bytes),
                     ct |-> content_type, files |-> saved.files,
                     calls |-> <<"is_supported", "save">>,
                     resized |-> <<>>, saved |-> sargs]

\* UploadService::upload with the uuid and the month drawn; `calls` are the
\* port calls made, in order, `resized` and `saved` the arguments of the calls
\* of resize_same_format and of save
upload(svc, files, filename, content_type, bytes, id, yyyymm) ==
    LET is_img == is_supported(svc.image, content_type)
    IN IF is_img
       THEN LET lower == ToAsciiLowercase(content_type)
                ext == CASE lower \in {S_image_jpeg, S_image_jpg} -> S_jpg
                         [] lower = S_image_png -> S_png
                         [] lower = S_image_gif -> S_gif
                         [] OTHER -> S_bin
                norm_ct == CASE lower \in {S_image_jpeg, S_image_jpg} -> S_image_jpeg
                             [] lower = S_image_png -> S_image_png
                             [] lower = S_image_gif -> S_image_gif
                             [] OTHER -> content_type
                resized == resize_same_format(svc.image, bytes, norm_ct,
                                              svc.resize.max_w, svc.resize.max_h)
                key == yyyymm \o <<SLASH>> \o id \o <<DOT>> \o ext
                saved == save_file(svc.storage, files, key, resized.bytes)
                rargs == <<[bytes |-> bytes, ct |-> norm_ct, max_w |-> svc.resize.max_w,
                            max_h |-> svc.resize.max_h]>>
                sargs == <<[key |-> key, bytes |-> resized.bytes]>>
            IN IF ~resized.ok
               THEN UploadErr(files, <<"is_supported", "resize_same_format">>, rargs, <<>>)
               ELSE IF ~saved.ok
               THEN UploadErr(saved.files, <<"is_supported", "resize_same_format", "save">>,
                              rargs, sargs)
               ELSE [ok |-> TRUE, key |-> key, abs |-> saved.abs,
                     n |-> Len(resized.bytes), ct |-> norm_ct, files |-> saved.files,
                     calls |-> <<"is_supported", "resize_same_format", "save">>,
                     resized |-> rargs, saved |-> sargs]
       ELSE LET safe == ReplaceChar(Trim(filename), SLASH, UNDERSCORE)
                name == IF safe = <<>> THEN id \o S_dot_bin ELSE safe
                key == svc.dirs.file_dir \o <<SLASH>> \o name
                saved == save_file(svc.storage, files, key, bytes)
                sargs == <<[key |-> key, bytes |-> bytes]>>
            IN IF ~saved.ok THEN UploadErr(saved.files, <<"is_supported", "save">>, <<>>, sargs)
               ELSE [ok |-> TRUE, key |-> key, abs |-> saved.abs, n |-> Len(bytes),
                     ct |-> content_type, files |-> saved.files,
                     calls |-> <<"is_supported", "save">>,
                     resized |-> <<>>, saved |-> sargs]

-----------------------------------------------------------------------------
(* graphql/guard.rs, graphql/handler.rs, web/upload/upload_handler.rs *)

CSRF_MESSAGE == "CSRF token missing or invalid"

\* an HTTP response: a plain body, a JSON body, or a GraphQL body of `errors`
\* and `data`
Response(status, body, json, errors, data) ==
    [status |-> status, body |-> body, json |-> json, errors |-> errors, data |-> data]

\* async_graphql::Response::from_errors as GraphQLResponse answers it
FromErrors(errors) == Response(200, "", None, errors, None)

\* mutant: the guard validates whether or not CSRF protection is enabled
validate_csrf_guard_ignore_flag(enable_csrf, header, j, c) ==
    IF ~validate_csrf(header, CookieValue(j), c)
    THEN [ok |-> FALSE, resp |-> Some(FromErrors(<<CSRF_MESSAGE>>))]
    ELSE [ok |-> TRUE, resp |-> None]

\* validate_csrf_guard: Ok(()) or Err(response)
validate_csrf_guard(enable_csrf, header, j, c) ==
    IF enable_csrf /\ ~validate_csrf(header, CookieValue(j), c)
    THEN [ok |-> FALSE, resp |-> Some(FromErrors(<<CSRF_MESSAGE>>))]
    ELSE [ok |-> TRUE, resp |-> None]

\* Schema::execute of the application's schema, with the extracted principal
\* in the request's data
schema_execute(outcome, current_user) ==
    IF outcome = "errors"
    THEN Response(200, "", None, <<"resolver error">>, None)
    ELSE Response(200, "", None, <<>>, Some([current_user |-> current_user]))

\* mutant: every outcome of the upload is answered with the JSON body
upload_response_always_json(fname, r) ==
    Response(200, "", Some([path |-> <<SLASH>> \o r.key, original_filename |-> fname,
                            bytes |-> r.n, content_type |-> r.ct]), <<>>, None)

\* upload_handler's answer to the result of UploadService::upload
upload_response(fname, r) ==
    IF r.ok
    THEN Response(200, "", Some([path |-> <<SLASH>> \o r.key, original_filename |-> fname,
                                 bytes |-> r.n, content_type |-> r.ct]), <<>>, None)
    ELSE Response(500, "save error", None, <<>>, None)

-----------------------------------------------------------------------------
(* SpecEdge: one request through graphql_post_handler or upload_handler *)

EDGE_NOW == 1700000000
EdgeJwtKey == <<115>>
EdgeToken(k) == generate_csrf_token([secret |-> SecretOf(1), cookie_secure |-> TRUE,
                                     cookie_http_only |-> TRUE], NonceOf(k))

\* header and csrf cookie of a request
EdgeCsrfPairs ==
    {[header |-> None, cookie |-> None],
     [header |-> Some(EdgeToken(1)), cookie |-> Some(EdgeToken(1))],
     [header |-> Some(EdgeToken(2)), cookie |-> Some(EdgeToken(1))],
     [header |-> Some(FlipMacBit(EdgeToken(1), 0)), cookie |-> Some(FlipMacBit(EdgeToken(1), 0))],
     [header |-> None, cookie |-> Some(EdgeToken(1))],
     [header |-> Some(EdgeToken(1)), cookie |-> None]}

\* a field of a multipart body as Multipart::next_field and Field::bytes
\* meet it; next = "err" is a point where the stream is malformed
Part(file_name, content_type, read_ok, data) ==
    [next |-> "field", file_name |-> file_name, content_type |-> content_type,
     read_ok |-> read_ok, data |-> data]
BrokenPart == [next |-> "err", file_name |-> None, content_type |-> None,
               read_ok |-> FALSE, data |-> <<>>]
TextPart == Part(Some(S_readme), Some(S_text_plain), TRUE, <<104, 105>>)
PhotoPart(ct) == Part(Some(S_photo), Some(ct), TRUE, <<1, 2, 3>>)

EdgeBodies ==
    {<<>>,
     <<BrokenPart>>,
     <<Part(Some(S_photo), Some(S_image_jpeg), FALSE, <<>>)>>,
     <<TextPart>>,
     <<TextPart, BrokenPart>>,
     <<Part(None, None, TRUE, <<120>>), PhotoPart(S_image_png)>>,
     <<PhotoPart(S_image_jpeg)>>,
     <<PhotoPart(S_IMAGE_JPEG_UPPER)>>}

EdgeImages ==
    {[kind |-> "image_rs", resize_ok |-> TRUE],
     [kind |-> "image_rs", resize_ok |-> FALSE],
     [kind |-> "any", resize_ok |-> TRUE]}

EdgeService(image, fail) ==
    [storage |-> [kind |-> "local", root |-> S_root, fail |-> fail],
     image |-> image,
     dirs |-> [image_dir |-> S_images, file_dir |-> S_files],
     resize |-> [max_w |-> 1280, max_h |-> 1280]]

UploadIds == {<<117, 49>>, <<117, 50>>}
EDGE_YYYYMM == <<50, 48, 50, 54, 49, 49>>

EdgeJar(pair, shape) ==
    (IF IsSome(pair.cookie) THEN {Cookie(CSRF_COOKIE_NAME, Unwrap(pair.cookie), None)} ELSE {})
    \cup ShapedJar(shape, create_jwt(42, EdgeJwtKey, EDGE_NOW), EdgeJwtKey)

EdgeRequest(handler, enable_csrf, pair, shape, jwt_secret, schema, body, svc) ==
    [handler |-> handler, enable_csrf |-> enable_csrf, header |-> pair.header,
     jar |-> EdgeJar(pair, shape), jwt_secret |-> jwt_secret, schema |-> schema,
     body |-> body, svc |-> svc]

EdgeRequests ==
    {EdgeRequest("graphql", e, p, sh, k, sc, <<>>, EdgeService([kind |-> "any", resize_ok |-> TRUE], FALSE)) :
        e \in BOOLEAN, p \in EdgeCsrfPairs,
        sh \in {"token_cookie", "missing", "malformed_token"},
        k \in {None, Some(EdgeJwtKey)}, sc \in {"data", "errors"}}
    \cup
    {EdgeRequest("upload", e, p, "missing", None, "data", b, EdgeService(im, f)) :
        e \in BOOLEAN, p \in EdgeCsrfPairs, b \in EdgeBodies, im \in EdgeImages,
        f \in BOOLEAN}

InitEdge ==
    /\ cfg \in {c \in DefaultConfigs : c.secret = SecretOf(1)}
    /\ req \in {Some(r) : r \in EdgeRequests}
    /\ pc = "start"
    /\ events = <<>>
    /\ user = None
    /\ store = {}
    /\ resp = None
    /\ TokenIdle /\ CsrfIdle /\ JwtIdle

Rq == Unwrap(req)

\* mutant: the error of the guard is not returned, the handler goes on
GqlCsrfGuard_no_return ==
    /\ pc = "start" /\ Rq.handler = "graphql"
    /\ LET g == validate_csrf_guard(Rq.enable_csrf, Rq.header, Rq.jar, cfg)
       IN /\ events' = Append(events, "validate_csrf_guard")
          /\ resp' = g.resp /\ pc' = "auth"
    /\ UNCHANGED <<cfg, req, user, store, tokenVars, csrfVars, jwtVars>>

\* graphql_post_handler: the CSRF guard
GqlCsrfGuard ==
    /\ pc = "start" /\ Rq.handler = "graphql"
    /\ LET g == validate_csrf_guard(Rq.enable_csrf, Rq.header, Rq.jar, cfg)
       IN /\ events' = Append(events, "validate_csrf_guard")
          /\ IF ~g.ok THEN resp' = g.resp /\ pc' = "done"
             ELSE resp' = resp /\ pc' = "auth"
    /\ UNCHANGED <<cfg, req, user, store, tokenVars, csrfVars, jwtVars>>

\* graphql_post_handler: the principal of the JWT cookie
GqlExtractCurrentUser ==
    /\ pc = "auth"
    /\ user' = extract_current_user(Rq.jar, Rq.jwt_secret, AUTH_COOKIE, EDGE_NOW)
    /\ events' = Append(events, "extract_current_user")
    /\ pc' = "execute"
    /\ UNCHANGED <<cfg, req, store, resp, tokenVars, csrfVars, jwtVars>>

\* graphql_post_handler: the execution of the request
GqlExecute ==
    /\ pc = "execute"
    /\ resp' = Some(schema_execute(Rq.schema, user))
    /\ events' = Append(events, "schema_execute")
    /\ pc' = "done"
    /\ UNCHANGED <<cfg, req, user, store, tokenVars, csrfVars, jwtVars>>

\* upload_handler: the CSRF check; validate_csrf is called only when enabled
UploadCsrfCheck ==
    /\ pc = "start" /\ Rq.handler = "upload"
    /\ events' = IF Rq.enable_csrf THEN Append(events, "validate_csrf") ELSE events
    /\ IF Rq.enable_csrf /\ ~validate_csrf(Rq.header, CookieValue(Rq.jar), cfg)
       THEN resp' = Some(Response(401, CSRF_MESSAGE, None, <<>>, None)) /\ pc' = "done"
       ELSE resp' = resp /\ pc' = "next_field"
    /\ UNCHANGED <<cfg, req, user, store, tokenVars, csrfVars, jwtVars>>

\* upload_handler: multipart.next_field(); the loop ends on Err and on
\* Ok(None), and every path of its body returns
UploadNextField ==
    /\ pc = "next_field"
    /\ events' = Append(events, "next_field")
    /\ IF Len(Rq.body) >= 1 /\ Rq.body[1].next = "field"
       THEN resp' = resp /\ pc' = "field_bytes"
       ELSE resp' = Some(Response(400, "no file", None, <<>>, None)) /\ pc' = "done"
    /\ UNCHANGED <<cfg, req, user, store, tokenVars, csrfVars, jwtVars>>

\* upload_handler: field.bytes()
UploadFieldBytes ==
    /\ pc = "field_bytes"
    /\ events' = Append(events, "field_bytes")
    /\ IF Rq.body[1].read_ok
       THEN resp' = resp /\ pc' = "upload"
       ELSE resp' = Some(Response(400, "read body error", None, <<>>, None)) /\ pc' = "done"
    /\ UNCHANGED <<cfg, req, user, store, tokenVars, csrfVars, jwtVars>>

\* upload_handler: upload_uc.upload and the answer
UploadCall ==
    /\ pc = "upload"
    /\ \E id \in UploadIds :
          LET field == Rq.body[1]
              ct == IF IsSome(field.content_type) THEN Unwrap(field.content_type) ELSE <<>>
              fname == IF IsSome(field.file_name) THEN Unwrap(field.file_name)
                       ELSE S_upload_bin
              r == upload(Rq.svc, store, fname, ct, field.data, id, EDGE_YYYYMM)
          IN /\ events' = events \o <<"upload">> \o r.calls
             /\ store' = r.files
             /\ resp' = Some(upload_response(fname, r))
    /\ pc' = "done"
    /\ UNCHANGED <<cfg, req, user, tokenVars, csrfVars, jwtVars>>

NextEdge ==
    \/ GqlCsrfGuard
    \/ GqlExtractCurrentUser
    \/ GqlExecute
    \/ UploadCsrfCheck
    \/ UploadNextField
    \/ UploadFieldBytes
    \/ UploadCall

SpecEdge == InitEdge /\ [][NextEdge]_vars

-----------------------------------------------------------------------------
(* Claims about the edge handlers *)

Done == pc = "done" /\ IsSome(req) /\ IsSome(resp)
Rs == Unwrap(resp)
Happened(e) == \E i \in 1..Len(events) : events[i] = e
Pos(e) == CHOOSE i \in 1..Len(events) : events[i] = e

\* validate_csrf fails on the request's header and csrf cookie
CsrfFails == ~validate_csrf(Rq.header, CookieValue(Rq.jar), cfg)

\* C6: with CSRF protection enabled and validate_csrf failing, the upload
\* endpoint answers HTTP 401 with the body "CSRF token missing or invalid"
\* and the GraphQL endpoint answers HTTP 200 with a top-level errors entry
\* carrying that message; with protection disabled both go on to their work
\* whatever the header and the cookie are.
ThmC6_CsrfFailureShape ==
    Done =>
        /\ (Rq.enable_csrf /\ CsrfFails /\ Rq.handler = "upload") =>
              (Rs.status = 401 /\ Rs.body = CSRF_MESSAGE /\ Rs.json = None)
        /\ (Rq.enable_csrf /\ CsrfFails /\ Rq.handler = "graphql") =>
              (Rs.status = 200 /\ Rs.errors = <<CSRF_MESSAGE>> /\ Rs.data = None)
        /\ (~Rq.enable_csrf /\ Rq.handler = "upload") =>
              (Happened("next_field") /\ Rs.status # 401 /\ Rs.body # CSRF_MESSAGE)
        /\ (~Rq.enable_csrf /\ Rq.handler = "graphql") =>
              (Happened("schema_execute") /\ Rs = schema_execute(Rq.schema, user))

\* a GraphQL request without header and cookie, CSRF enabled, was answered
WitC6_GraphqlCsrfError ==
    /\ Done /\ Rq.handler = "graphql" /\ Rq.enable_csrf
    /\ Rq.header = None /\ CookieValue(Rq.jar) = None
    /\ Rs.status = 200 /\ Rs.errors = <<CSRF_MESSAGE>>

HandlerWork ==
    {"extract_current_user", "schema_execute", "next_field", "field_bytes", "upload",
     "is_supported", "resize_same_format", "save"}

\* C7: both handlers validate CSRF first when it is enabled, the GraphQL
\* handler then extracts the JWT principal and only then executes the schema,
\* the upload handler only then reads the multipart body; after a CSRF
\* failure there is no JWT extraction, no schema execution, no multipart read
\* and no storage write.
ThmC7_EdgeOrdering ==
    IsSome(req) =>
        /\ (Rq.enable_csrf /\ events # <<>>) =>
              events[1] = (IF Rq.handler = "graphql" THEN "validate_csrf_guard"
                           ELSE "validate_csrf")
        /\ Happened("schema_execute") =>
              /\ Happened("validate_csrf_guard") /\ Happened("extract_current_user")
              /\ Pos("validate_csrf_guard") < Pos("extract_current_user")
              /\ Pos("extract_current_user") < Pos("schema_execute")
        /\ Happened("extract_current_user") =>
              /\ Happened("validate_csrf_guard")
              /\ Pos("validate_csrf_guard") < Pos("extract_current_user")
        /\ (Rq.enable_csrf /\ CsrfFails) =>
              /\ \A i \in 1..Len(events) : events[i] \notin HandlerWork
              /\ user = None /\ store = {}
              /\ pc \in {"start", "done"}

\* a GraphQL request with a valid CSRF pair and a valid JWT cookie went through
\* guard, extraction and execution
WitC7_GraphqlFullOrder ==
    /\ Done /\ Rq.handler = "graphql" /\ Rq.enable_csrf /\ IsSome(user)
    /\ events = <<"validate_csrf_guard", "extract_current_user", "schema_execute">>

\* what upload_handler meets in the request: the first item of the multipart
\* stream
NoField == Len(Rq.body) = 0 \/ Rq.body[1].next # "field"
Unreadable == ~NoField /\ ~Rq.body[1].read_ok
FirstContentType ==
    IF IsSome(Rq.body[1].content_type) THEN Unwrap(Rq.body[1].content_type) ELSE <<>>
ServiceFails ==
    \/ Rq.svc.storage.fail
    \/ is_supported(Rq.svc.image, FirstContentType) /\ ~Rq.svc.image.resize_ok

HasFileField == \E i \in 1..Len(Rq.body) : Rq.body[i].next = "field" /\ IsSome(Rq.body[i].file_name)
FirstFileField ==
    Rq.body[CHOOSE i \in 1..Len(Rq.body) :
               /\ Rq.body[i].next = "field" /\ IsSome(Rq.body[i].file_name)
               /\ \A j \in 1..(i - 1) : ~IsSome(Rq.body[j].file_name)]

\* C11: a 200 response of upload_handler is built from the first file field
\* of the body: original_filename is that field's filename, the stored bytes
\* are that field's bytes (resized when it is an image), and path is "/"
\* followed by the content key under which they are stored.
CexC11_FirstFileField ==
    (Done /\ Rq.handler = "upload" /\ Rs.status = 200 /\ HasFileField) =>
        LET f == FirstFileField
            ct == IF IsSome(f.content_type) THEN Unwrap(f.content_type) ELSE <<>>
            j == Unwrap(Rs.json)
        IN /\ j.original_filename = Unwrap(f.file_name)
           /\ \E s \in store :
                 /\ s.path = Rq.svc.storage.root \o j.path
                 /\ s.bytes = (IF is_supported(Rq.svc.image, ct)
                               THEN resize_same_format(Rq.svc.image, f.data, ct, 0, 0).bytes
                               ELSE f.data)
                 /\ j.bytes = Len(s.bytes)

-----------------------------------------------------------------------------
(* SpecUpload: one call of UploadService::upload *)

InitUpload ==
    /\ cfg \in {c \in DefaultConfigs : c.secret = SecretOf(1)}
    /\ req \in {Some([handler |-> "service", filename |-> n, content_type |-> t,
                      bytes |-> b, svc |-> EdgeService(im, f)]) :
                   n \in {S_readme, <<>>, <<32, 32>>, <<32, 97, 47, 98, 47, 99, 32>>, S_photo},
                   t \in {S_text_plain, S_image_jpeg, S_IMAGE_JPEG_UPPER, S_image_jpg,
                          S_image_png, S_image_gif, <<105, 109, 97, 103, 101, 47, 119, 101, 98, 112>>, <<>>},
                   b \in {<<>>, <<1, 2, 3>>},
                   im \in EdgeImages \cup {[kind |-> "never", resize_ok |-> TRUE],
                                           [kind |-> "prefix", resize_ok |-> TRUE],
                                           [kind |-> "prefix", resize_ok |-> FALSE]},
                   f \in BOOLEAN}
    /\ pc = "start"
    /\ events = <<>>
    /\ user = None
    /\ store = {}
    /\ resp = None
    /\ TokenIdle /\ CsrfIdle /\ JwtIdle

\* UploadService::upload; resp holds its result
UploadServiceUpload ==
    /\ pc = "start" /\ Rq.handler = "service"
    /\ \E id \in UploadIds :
          LET r == upload(Rq.svc, store, Rq.filename, Rq.content_type, Rq.bytes, id,
                          EDGE_YYYYMM)
          IN /\ events' = r.calls
             /\ store' = r.files
             /\ resp' = Some(r)
    /\ pc' = "done"
    /\ UNCHANGED <<cfg, req, user, tokenVars, csrfVars, jwtVars>>

SpecUpload == InitUpload /\ [][UploadServiceUpload]_vars

-----------------------------------------------------------------------------
(* Claims about the upload engine *)

Uploaded == pc = "done" /\ IsSome(req) /\ IsSome(resp) /\ Rq.handler = "service"

\* C12: when the image processor reports the MIME as unsupported the key is
\* file_dir "/" name, name being the trimmed filename with every '/' replaced
\* by '_' or "<uuid>.bin" when that is empty; storage.save is called exactly
\* once, with that key and the original bytes; resize is never called; the
\* result is (key, storage handle, original byte count, original MIME).
ThmC12_GenericBranch ==
    (Uploaded /\ ~is_supported(Rq.svc.image, Rq.content_type)) =>
        LET trimmed == Trim(Rq.filename)
            prefix == Rq.svc.dirs.file_dir \o <<SLASH>>
            key == Rs.saved[1].key
            name == SubSeq(key, Len(prefix) + 1, Len(key))
        IN /\ Len(Rs.saved) = 1 /\ Rs.saved[1].bytes = Rq.bytes
           /\ Cardinality({i \in 1..Len(events) : events[i] = "save"}) = 1
           /\ Rs.resized = <<>> /\ ~Happened("resize_same_format")
           /\ StartsWith(key, prefix)
           /\ IF trimmed = <<>>
              THEN \E id \in UploadIds : name = id \o S_dot_bin
              ELSE /\ Len(name) = Len(trimmed)
                   /\ \A i \in 1..Len(name) :
                         name[i] = (IF trimmed[i] = SLASH THEN UNDERSCORE ELSE trimmed[i])
           /\ Rs.ok = ~Rq.svc.storage.fail
           /\ Rs.ok =>
                 /\ Rs.key = key /\ Rs.n = Len(Rq.bytes) /\ Rs.ct = Rq.content_type
                 /\ \E f \in store : f.path = Rs.abs /\ f.bytes = Rq.bytes

\* a filename with two slashes and blanks around it was stored by the generic
\* branch
WitC12_SlashesReplaced ==
    /\ Uploaded /\ Rs.ok /\ Rq.filename = <<32, 97, 47, 98, 47, 99, 32>>
    /\ Rs.key = <<102, 105, 108, 101, 115, 47, 97, 95, 98, 95, 99>> /\ Rs.resized = <<>>

\* the declared MIME types each image arm of upload matches, in the cases drawn
JpegTypes == {S_image_jpeg, S_image_jpg, S_IMAGE_JPEG_UPPER}
ImageBranch == Uploaded /\ Rs.ok /\ Happened("resize_same_format")
KeyHasForm(key, exts) ==
    \E id \in UploadIds, ext \in exts : key = EDGE_YYYYMM \o <<SLASH>> \o id \o <<DOT>> \o ext

\* C13 as claimed: every successful upload through the image branch, for any
\* processor that called the MIME supported, has a key <YYYYMM>/<uuid>.<ext>
\* with ext in {jpg, png, gif} and returns image/jpeg, image/png or image/gif.
CexC13_AnyProcessor ==
    ImageBranch =>
        /\ KeyHasForm(Rs.key, {S_jpg, S_png, S_gif})
        /\ Rs.ct \in {S_image_jpeg, S_image_png, S_image_gif}

\* C13 amended: when the declared MIME is, in any case, image/jpeg, image/jpg,
\* image/png or image/gif, a successful upload through the image branch has
\* the key <YYYYMM>/<uuid>.<ext> with the extension of the type and returns
\* the normalized MIME (image/jpg as image/jpeg); for any other MIME a
\* processor called supported the extension is bin and the MIME is returned
\* as declared.
ThmC13_ImageKeyAndMime ==
    ImageBranch =>
        CASE Rq.content_type \in JpegTypes ->
                KeyHasForm(Rs.key, {S_jpg}) /\ Rs.ct = S_image_jpeg
          [] Rq.content_type = S_image_png ->
                KeyHasForm(Rs.key, {S_png}) /\ Rs.ct = S_image_png
          [] Rq.content_type = S_image_gif ->
                KeyHasForm(Rs.key, {S_gif}) /\ Rs.ct = S_image_gif
          [] OTHER ->
                KeyHasForm(Rs.key, {S_bin}) /\ Rs.ct = Rq.content_type

\* an upper-case IMAGE/JPEG went through ImageRsProcessor and was stored as jpg
WitC13_UpperCaseJpeg ==
    /\ ImageBranch /\ Rq.content_type = S_IMAGE_JPEG_UPPER
    /\ Rq.svc.image.kind = "image_rs" /\ Rs.ct = S_image_jpeg

\* C14: in the image branch storage.save is invoked at most once, only after
\* resize_same_format returned successfully and with exactly the bytes it
\* returned; when resize fails save is never invoked and upload returns the
\* error; upload returns Ok only when save returned Ok, and the byte count
\* reported is the length of the resized bytes.
ThmC14_ResizeBeforeStorage ==
    (Uploaded /\ is_supported(Rq.svc.image, Rq.content_type)) =>
        LET out == resize_same_format(Rq.svc.image, Rq.bytes, Rs.resized[1].ct,
                                      Rq.svc.resize.max_w, Rq.svc.resize.max_h)
        IN /\ Len(Rs.resized) = 1 /\ Rs.resized[1].bytes = Rq.bytes
           /\ Len(Rs.saved) <= 1
           /\ Cardinality({i \in 1..Len(events) : events[i] = "save"}) = Len(Rs.saved)
           /\ Happened("save") => Pos("resize_same_format") < Pos("save")
           /\ ~Rq.svc.image.resize_ok => (Rs.saved = <<>> /\ ~Rs.ok /\ store = {})
           /\ Rs.saved # <<>> => (out.ok /\ Rs.saved[1].bytes = out.bytes)
           /\ Rs.ok =>
                 /\ Rs.saved # <<>> /\ ~Rq.svc.storage.fail
                 /\ Rs.n = Len(out.bytes)
                 /\ \E f \in store : f.path = Rs.abs /\ f.bytes = out.bytes
           /\ Rq.svc.storage.fail => ~Rs.ok

\* ImageRsProcessor re-encoded a PNG and the storage holds the re-encoded
\* bytes, not the original ones
WitC14_ResizedStored ==
    /\ Uploaded /\ Rs.ok /\ Rq.svc.image.kind = "image_rs" /\ Rq.content_type = S_image_png
    /\ Rq.bytes = <<1, 2, 3>>
    /\ \E f \in store : f.path = Rs.abs /\ f.bytes = <<255, 216, 1, 2, 3>>
    /\ Rs.n = 5

-----------------------------------------------------------------------------
(* SpecStorage: two concurrent calls of LocalFileStorage::save, each in the
   steps of fs::write: create or truncate the file, write the bytes, return *)

StoragePaths ==
    {<<97, 46, 116, 120, 116>>, <<47, 116, 111, 112, 47, 108, 101, 118, 101, 108, 46, 98, 105, 110>>, <<47, 47, 116, 111, 112, 47, 108, 101, 118, 101, 108, 46, 98, 105, 110>>, <<46, 46, 47, 115, 101, 99, 114, 101, 116, 46, 116, 120, 116>>, <<46, 46, 46>>, <<46, 46, 46, 46>>,
     <<47, 46, 46, 47, 120>>, <<97, 47, 46, 46, 47, 46, 46, 47, 98>>, <<46, 46>>, <<>>, <<47>>, <<46, 46, 46, 47, 46, 46, 47, 47, 120>>, <<105, 109, 97, 103, 101, 115, 47, 46, 46, 47, 46, 46, 47, 101, 116, 99, 47, 120>>}

InitStorage ==
    /\ cfg \in {c \in DefaultConfigs : c.secret = SecretOf(1)}
    /\ req \in {Some([handler |-> "storage", root |-> S_root,
                      saves |-> <<[rel_path |-> p, bytes |-> <<1, 2>>],
                                  [rel_path |-> <<116, 111, 112, 47, 108, 101, 118, 101, 108, 46, 98, 105, 110>>, bytes |-> <<7, 8, 9>>]>>]) :
                   p \in StoragePaths}
    /\ pc = [w \in {1, 2} |-> [at |-> "start", off |-> 0]]
    /\ events = <<>>
    /\ user = None
    /\ store = {}
    /\ resp = [w \in {1, 2} |-> None]
    /\ TokenIdle /\ CsrfIdle /\ JwtIdle

\* what save_file computes for the call of writer w: the sanitized location
SaveOf(w) ==
    save_file([root |-> Rq.root, fail |-> FALSE], {}, Rq.saves[w].rel_path, Rq.saves[w].bytes)

\* fs::write, File::create: the file is created, or truncated when it exists;
\* the open fails for the root directory and when the file system refuses
StorageOpen(w) ==
    /\ pc[w].at = "start"
    /\ \/ /\ SaveOf(w).ok
          /\ store' = {f \in store : f.path # SaveOf(w).abs}
                          \cup {[path |-> SaveOf(w).abs, bytes |-> <<>>]}
          /\ pc' = [pc EXCEPT ![w] = [at |-> "writing", off |-> 0]]
          /\ resp' = resp
       \/ /\ store' = store
          /\ pc' = [pc EXCEPT ![w] = [at |-> "failed", off |-> 0]]
          /\ resp' = [resp EXCEPT ![w] = Some([ok |-> FALSE, abs |-> <<>>])]
    /\ UNCHANGED <<cfg, req, events, user, tokenVars, csrfVars, jwtVars>>

\* fs::write, write_all: the next byte goes to the writer's own offset of the
\* file under the path (a gap left by another writer's truncation reads zero)
StorageWrite(w) ==
    /\ pc[w].at = "writing" /\ pc[w].off < Len(Rq.saves[w].bytes)
    /\ LET k == pc[w].off + 1
           old == (CHOOSE f \in store : f.path = SaveOf(w).abs).bytes
           new == [i \in 1..(IF Len(old) > k THEN Len(old) ELSE k) |->
                      IF i = k THEN Rq.saves[w].bytes[k]
                      ELSE IF i <= Len(old) THEN old[i] ELSE 0]
       IN /\ store' = {f \in store : f.path # SaveOf(w).abs}
                          \cup {[path |-> SaveOf(w).abs, bytes |-> new]}
          /\ pc' = [pc EXCEPT ![w].off = k]
    /\ UNCHANGED <<cfg, req, events, user, resp, tokenVars, csrfVars, jwtVars>>

\* fs::write fails after the open (disk full, I/O error): save_file returns
\* the error and the file stays as it is
StorageWriteError(w) ==
    /\ pc[w].at = "writing" /\ pc[w].off < Len(Rq.saves[w].bytes)
    /\ pc' = [pc EXCEPT ![w].at = "failed"]
    /\ resp' = [resp EXCEPT ![w] = Some([ok |-> FALSE, abs |-> <<>>])]
    /\ UNCHANGED <<cfg, req, events, user, store, tokenVars, csrfVars, jwtVars>>

\* save_file returns Ok(full)
StorageReturn(w) ==
    /\ pc[w].at = "writing" /\ pc[w].off = Len(Rq.saves[w].bytes)
    /\ pc' = [pc EXCEPT ![w].at = "done"]
    /\ resp' = [resp EXCEPT ![w] = Some([ok |-> TRUE, abs |-> SaveOf(w).abs])]
    /\ UNCHANGED <<cfg, req, events, user, store, tokenVars, csrfVars, jwtVars>>

NextStorage ==
    \E w \in {1, 2} :
        \/ StorageOpen(w)
        \/ StorageWrite(w)
        \/ StorageWriteError(w)
        \/ StorageReturn(w)

SpecStorage == InitStorage /\ [][NextStorage]_vars

-----------------------------------------------------------------------------
(* Claims about the storage *)

\* the locations the storage wrote to or returned
Locations ==
    {f.path : f \in store}
        \cup {Unwrap(resp[w]).abs : w \in {w \in {1, 2} : IsSome(resp[w]) /\ Unwrap(resp[w]).ok}}
Storing == IsSome(req) /\ Rq.handler = "storage"
LeadingSlashes(str) ==
    IF \A i \in 1..Len(str) : str[i] = SLASH THEN Len(str)
    ELSE (CHOOSE i \in 1..Len(str) : str[i] # SLASH /\ \A j \in 1..(i - 1) : str[j] = SLASH) - 1

\* C15: for every relative path, with "..", "...", "....", leading slashes
\* or mixtures of them, the location LocalFileStorage::save writes to and
\* returns has no component equal to ".." and lies under the configured root.
ThmC15_NeverAboveRoot ==
    Storing =>
        \A loc \in Locations :
            /\ StartsWith(loc, Rq.root \o <<SLASH>>)
            /\ \A i \in 1..Len(Split(loc, SLASH)) : Split(loc, SLASH)[i] # <<DOT, DOT>>

\* "a/../../b" was saved, under the root and without a parent component
WitC15_TraversalStored ==
    /\ Storing /\ Rq.saves[1].rel_path = <<97, 47, 46, 46, 47, 46, 46, 47, 98>>
    /\ IsSome(resp[1]) /\ Unwrap(resp[1]).ok /\ Unwrap(resp[1]).abs = <<47, 117, 112, 47, 97, 47, 95, 47, 95, 47, 98>>
    /\ \E f \in store : f.path = <<47, 117, 112, 47, 97, 47, 95, 47, 95, 47, 98>> /\ f.bytes = <<1, 2>>

\* C16 as claimed: exactly one leading '/' is removed from the relative path
\* before it is joined to the root; what follows that one character is kept.
CexC16_SingleSlashStripped ==
    (Storing /\ IsSome(resp[1]) /\ Unwrap(resp[1]).ok) =>
        LET rel == Rq.saves[1].rel_path
            rest == IF rel # <<>> /\ rel[1] = SLASH THEN SubSeq(rel, 2, Len(rel)) ELSE rel
        IN (\A i \in 1..(Len(rel) - 1) : ~(rel[i] = DOT /\ rel[i + 1] = DOT)) =>
              Unwrap(resp[1]).abs \in {Rq.root \o <<SLASH>> \o rest,
                                       IF rest # <<>> /\ rest[1] = SLASH THEN rest
                                       ELSE Rq.root \o <<SLASH>> \o rest}

\* C16 amended: every leading '/' is removed from the relative path before it
\* is joined to the root: a path with any number of leading slashes is stored
\* as if it had none, and nothing else is removed.
ThmC16_LeadingSlashesStripped ==
    (Storing /\ IsSome(resp[1]) /\ Unwrap(resp[1]).ok) =>
        LET rel == Rq.saves[1].rel_path
            rest == SubSeq(rel, LeadingSlashes(rel) + 1, Len(rel))
        IN /\ rest # <<>> /\ rest[1] # SLASH
           /\ (\A i \in 1..(Len(rel) - 1) : ~(rel[i] = DOT /\ rel[i + 1] = DOT)) =>
                 Unwrap(resp[1]).abs = Rq.root \o <<SLASH>> \o rest
           /\ Len(Unwrap(resp[1]).abs) > Len(Rq.root) + 1
           /\ Unwrap(resp[1]).abs[Len(Rq.root) + 2] # SLASH

\* "//top/level.bin" was saved as top/level.bin under the root
WitC16_TwoSlashes ==
    /\ Storing /\ Rq.saves[1].rel_path = <<47, 47, 116, 111, 112, 47, 108, 101, 118, 101, 108, 46, 98, 105, 110>>
    /\ IsSome(resp[1]) /\ Unwrap(resp[1]).ok
    /\ Unwrap(resp[1]).abs = <<47, 117, 112, 47, 116, 111, 112, 47, 108, 101, 118, 101, 108, 46, 98, 105, 110>>

\* C17: at no point during or after LocalFileStorage::save is a partial file
\* observable under the final key: whatever a reader finds under a key is the
\* whole content of a save to that key, also when a save has failed.
CexC17_NoPartialFile ==
    Storing =>
        \A f \in store :
            \E w \in {1, 2} : SaveOf(w).abs = f.path /\ f.bytes = Rq.saves[w].bytes

-----------------------------------------------------------------------------
(* db/port.rs, db/mysql_adapter.rs *)

MaxParams == 3

\* a Param or Value of db/port.rs, or a mysql::Value: the variant and its
\* payload (n a number, flag a bool, bytes a string or byte buffer, dt the
\* fields <<year, month, day, hour, minute, second, sub-second>>)
Val(tag, n, flag, bytes, dt) ==
    [tag |-> tag, n |-> n, flag |-> flag, bytes |-> bytes, dt |-> dt]

\* mutant: the sub-second field is passed on in nanoseconds
to_mysql_value_nanos(p) ==
    CASE p.tag = "I64" -> Val("Int", p.n, FALSE, <<>>, <<>>)
      [] p.tag = "U64" -> Val("UInt", p.n, FALSE, <<>>, <<>>)
      [] p.tag = "Bool" -> Val("Int", IF p.flag THEN 1 ELSE 0, FALSE, <<>>, <<>>)
      [] p.tag = "Str" -> Val("Bytes", 0, FALSE, p.bytes, <<>>)
      [] p.tag = "DateTime" ->
            Val("Date", 0, FALSE, <<>>,
                <<p.dt[1] % 65536, p.dt[2] % 256, p.dt[3] % 256, p.dt[4] % 256,
                  p.dt[5] % 256, p.dt[6] % 256, p.dt[7]>>)
      [] p.tag = "Bin" -> Val("Bytes", 0, FALSE, p.bytes, <<>>)
      [] p.tag = "Null" -> Val("NULL", 0, FALSE, <<>>, <<>>)
      [] OTHER -> Val("NoBinding", 0, FALSE, <<>>, <<>>)

\* MySqlDb::to_mysql_value; the match has arms for these seven variants and
\* none for Param::F32 and Param::F64, for which nothing is bound (the match is
\* not exhaustive). The casts keep their width: year as u16, the others as u8;
\* nanosecond / 1_000 is the integer quotient
to_mysql_value(p) ==
    CASE p.tag = "I64" -> Val("Int", p.n, FALSE, <<>>, <<>>)
      [] p.tag = "U64" -> Val("UInt", p.n, FALSE, <<>>, <<>>)
      [] p.tag = "Bool" -> Val("Int", IF p.flag THEN 1 ELSE 0, FALSE, <<>>, <<>>)
      [] p.tag = "Str" -> Val("Bytes", 0, FALSE, p.bytes, <<>>)
      [] p.tag = "DateTime" ->
            Val("Date", 0, FALSE, <<>>,
                <<p.dt[1] % 65536, p.dt[2] % 256, p.dt[3] % 256, p.dt[4] % 256,
                  p.dt[5] % 256, p.dt[6] % 256, p.dt[7] \div 1000>>)
      [] p.tag = "Bin" -> Val("Bytes", 0, FALSE, p.bytes, <<>>)
      [] p.tag = "Null" -> Val("NULL", 0, FALSE, <<>>, <<>>)
      [] OTHER -> Val("NoBinding", 0, FALSE, <<>>, <<>>)

\* MySqlDb::to_mysql_params: Params::Positional of the mapped values
to_mysql_params(params_in) ==
    [kind |-> "Positional", v |-> [i \in 1..Len(params_in) |-> to_mysql_value(params_in[i])]]

\* chrono: the days of month m of year y (proleptic Gregorian)
DaysInMonth(y, m) ==
    IF m = 2
    THEN (IF (y % 4 = 0 /\ y % 100 # 0) \/ y % 400 = 0 THEN 29 ELSE 28)
    ELSE IF m \in {4, 6, 9, 11} THEN 30 ELSE 31

\* NaiveDate::from_ymd_opt(..).is_some(), for a year that came from a u16
ValidYmd(y, m, d) == m \in 1..12 /\ d \in 1..DaysInMonth(y, m)

\* NaiveTime::from_hms_opt(..).is_some()
ValidHms(hh, mm, ss) == hh \in 0..23 /\ mm \in 0..59 /\ ss \in 0..59

\* the step of String::from_utf8 at position i of b: whether a well-formed
\* sequence starts there, and its length; for an ill-formed one, the length
\* of the part from_utf8_lossy replaces by one U+FFFD
Utf8At(b, i) ==
    LET at(k) == IF i + k <= Len(b) THEN b[i + k] ELSE -1
        cont(x) == x \in 128..191
        second == CASE at(0) = 224 -> at(1) \in 160..191
                    [] at(0) = 237 -> at(1) \in 128..159
                    [] at(0) = 240 -> at(1) \in 144..191
                    [] at(0) = 244 -> at(1) \in 128..143
                    [] OTHER -> cont(at(1))
        need == CASE at(0) \in 0..127 -> 1
                  [] at(0) \in 194..223 -> 2
                  [] at(0) \in 224..239 -> 3
                  [] at(0) \in 240..244 -> 4
                  [] OTHER -> 0
    IN IF need = 0 THEN [ok |-> FALSE, len |-> 1]
       ELSE IF need = 1 THEN [ok |-> TRUE, len |-> 1]
       ELSE IF ~second THEN [ok |-> FALSE, len |-> 1]
       ELSE IF need = 2 THEN [ok |-> TRUE, len |-> 2]
       ELSE IF ~cont(at(2)) THEN [ok |-> FALSE, len |-> 2]
       ELSE IF need = 3 THEN [ok |-> TRUE, len |-> 3]
       ELSE IF ~cont(at(3)) THEN [ok |-> FALSE, len |-> 3]
       ELSE [ok |-> TRUE, len |-> 4]

\* String::from_utf8(b) when it is Ok, String::from_utf8_lossy(b) otherwise:
\* the well-formed sequences as they are, U+FFFD for each ill-formed part
RECURSIVE Utf8Lossy(_, _)
Utf8Lossy(b, i) ==
    IF i > Len(b) THEN <<>>
    ELSE LET u == Utf8At(b, i)
         IN (IF u.ok THEN SubSeq(b, i, i + u.len - 1) ELSE <<239, 191, 189>>)
                \o Utf8Lossy(b, i + u.len)

\* {n:0w}: n in decimal, zero-padded to w digits
RECURSIVE PadZero(_, _)
PadZero(str, w) == IF Len(str) >= w THEN str ELSE PadZero(<<48>> \o str, w)

\* mutant: a date-time with an invalid part falls back as a whole
value_from_mysql_whole_fallback(v) ==
    CASE v.tag = "NULL" -> Val("Null", 0, FALSE, <<>>, <<>>)
      [] v.tag = "Int" -> Val("I64", v.n, FALSE, <<>>, <<>>)
      [] v.tag = "UInt" -> Val("U64", v.n, FALSE, <<>>, <<>>)
      [] v.tag \in {"Float", "Double"} -> Val("Str", 0, FALSE, ToDecimal(v.n), <<>>)
      [] v.tag = "Bytes" -> Val("Str", 0, FALSE, Utf8Lossy(v.bytes, 1), <<>>)
      [] v.tag = "Date" ->
            IF ValidYmd(v.dt[1], v.dt[2], v.dt[3]) /\ ValidHms(v.dt[4], v.dt[5], v.dt[6])
            THEN Val("DateTime", 0, FALSE, <<>>, SubSeq(v.dt, 1, 6) \o <<0>>)
            ELSE Val("DateTime", 0, FALSE, <<>>, <<1970, 1, 1, 0, 0, 0, 0>>)
      [] v.tag = "Time" ->
            Val("Str", 0, FALSE,
                (IF v.flag THEN <<45>> ELSE <<>>) \o PadZero(ToDecimal(v.n), 3) \o <<32>>
                    \o PadZero(ToDecimal(v.dt[1]), 2) \o <<58>> \o PadZero(ToDecimal(v.dt[2]), 2)
                    \o <<58>> \o PadZero(ToDecimal(v.dt[3]), 2)
                    \o (IF v.dt[4] > 0 THEN <<DOT>> \o PadZero(ToDecimal(v.dt[4]), 6) ELSE <<>>),
                <<>>)

\* MySqlDb::row_from_mysql, the match on one driver value: floats and times
\* become strings, a byte buffer becomes the string of its UTF-8 (lossy when
\* it is not valid), a date-time takes its date and its time separately, each
\* with its own fallback; the microseconds are dropped
value_from_mysql(v) ==
    CASE v.tag = "NULL" -> Val("Null", 0, FALSE, <<>>, <<>>)
      [] v.tag = "Int" -> Val("I64", v.n, FALSE, <<>>, <<>>)
      [] v.tag = "UInt" -> Val("U64", v.n, FALSE, <<>>, <<>>)
      [] v.tag \in {"Float", "Double"} -> Val("Str", 0, FALSE, ToDecimal(v.n), <<>>)
      [] v.tag = "Bytes" -> Val("Str", 0, FALSE, Utf8Lossy(v.bytes, 1), <<>>)
      [] v.tag = "Date" ->
            Val("DateTime", 0, FALSE, <<>>,
                (IF ValidYmd(v.dt[1], v.dt[2], v.dt[3])
                 THEN SubSeq(v.dt, 1, 3) ELSE <<1970, 1, 1>>)
                    \o (IF ValidHms(v.dt[4], v.dt[5], v.dt[6])
                        THEN SubSeq(v.dt, 4, 6) ELSE <<0, 0, 0>>)
                    \o <<0>>)
      [] v.tag = "Time" ->
            Val("Str", 0, FALSE,
                (IF v.flag THEN <<45>> ELSE <<>>) \o PadZero(ToDecimal(v.n), 3) \o <<32>>
                    \o PadZero(ToDecimal(v.dt[1]), 2) \o <<58>> \o PadZero(ToDecimal(v.dt[2]), 2)
                    \o <<58>> \o PadZero(ToDecimal(v.dt[3]), 2)
                    \o (IF v.dt[4] > 0 THEN <<DOT>> \o PadZero(ToDecimal(v.dt[4]), 6) ELSE <<>>),
                <<>>)

\* MySqlDb::row_from_mysql: the columns by name; cells is a sequence of
\* <<name, driver value>>
row_from_mysql(cells) ==
    [name \in {cells[i][1] : i \in 1..Len(cells)} |->
        value_from_mysql(cells[CHOOSE i \in 1..Len(cells) :
                                   cells[i][1] = name /\ \A j \in (i + 1)..Len(cells) : cells[j][1] # name][2])]

BACKQUOTE == 96

\* mutant: the column is reported as missing, as the optional accessors do
RowErr_not_found(key, kind) ==
    [ok |-> FALSE, val |-> Val("None", 0, FALSE, <<>>, <<>>),
     err |-> <<"column ", BACKQUOTE, key, BACKQUOTE, " not found">>]

\* anyhow::bail!: "column ", the key between backquotes, " is not <kind>"; the
\* message in its parts
RowErr(key, kind) ==
    [ok |-> FALSE, val |-> Val("None", 0, FALSE, <<>>, <<>>),
     err |-> <<"column ", BACKQUOTE, key, BACKQUOTE, " is not ", kind>>]

\* impl Row: the typed accessors, by name; row is the map of its columns, and
\* the result is Ok(val), with the tag None for Ok(None), or the error
RowGet(accessor, row, key) ==
    LET got == IF key \in DOMAIN row THEN Some(row[key]) ELSE None
        v == Unwrap(got)
        Is(tag) == IsSome(got) /\ v.tag = tag
        Ok(val) == [ok |-> TRUE, val |-> val, err |-> <<>>]
    IN CASE accessor = "get_u64" ->
               IF Is("U64") THEN Ok(Val("U64", v.n, FALSE, <<>>, <<>>))
               ELSE IF Is("I64") /\ v.n >= 0 THEN Ok(Val("U64", v.n, FALSE, <<>>, <<>>))
               ELSE RowErr(key, "U64")
         [] accessor = "get_i64" -> IF Is("I64") THEN Ok(v) ELSE RowErr(key, "I64")
         [] accessor = "get_f32" -> IF Is("F32") THEN Ok(v) ELSE RowErr(key, "F32")
         [] accessor = "get_f64" -> IF Is("F64") THEN Ok(v) ELSE RowErr(key, "F64")
         [] accessor = "get_bool" ->
               IF Is("Bool") THEN Ok(v)
               ELSE IF Is("I64") THEN Ok(Val("Bool", 0, v.n # 0, <<>>, <<>>))
               ELSE IF Is("U64") THEN Ok(Val("Bool", 0, v.n # 0, <<>>, <<>>))
               ELSE IF Is("Str") /\ (v.bytes = <<48>> \/ v.bytes = <<49>>)
                    THEN Ok(Val("Bool", 0, v.bytes # <<48>>, <<>>, <<>>))
               ELSE RowErr(key, "Bool")
         [] accessor = "get_string" -> IF Is("Str") THEN Ok(v) ELSE RowErr(key, "String")
         [] accessor = "get_datetime" ->
               IF Is("DateTime") THEN Ok(v) ELSE RowErr(key, "DateTime")
         [] accessor = "get_bin" -> IF Is("Bin") THEN Ok(v) ELSE RowErr(key, "Bin")
         [] accessor = "get_uuid" ->
               IF ~Is("Bin") THEN RowErr(key, "Bin")
               ELSE IF Len(v.bytes) # 16 THEN RowErr(key, "valid UUID bytes")
               ELSE Ok(Val("Uuid", 0, FALSE, v.bytes, <<>>))
         [] accessor = "get_string_opt" ->
               IF Is("Str") THEN Ok(v)
               ELSE IF Is("Null") THEN Ok(Val("None", 0, FALSE, <<>>, <<>>))
               ELSE IF IsSome(got) THEN RowErr(key, "String/NULL")
               ELSE [ok |-> FALSE, val |-> Val("None", 0, FALSE, <<>>, <<>>),
                     err |-> <<"column ", BACKQUOTE, key, BACKQUOTE, " not found">>]
         [] accessor = "get_datetime_opt" ->
               IF Is("DateTime") THEN Ok(v)
               ELSE IF Is("Null") THEN Ok(Val("None", 0, FALSE, <<>>, <<>>))
               ELSE IF IsSome(got) THEN RowErr(key, "DateTime/NULL")
               ELSE [ok |-> FALSE, val |-> Val("None", 0, FALSE, <<>>, <<>>),
                     err |-> <<"column ", BACKQUOTE, key, BACKQUOTE, " not found">>]

-----------------------------------------------------------------------------
(* SpecDb: one conversion of parameters, or one typed access to a row *)

DbParams ==
    {Val("I64", -7, FALSE, <<>>, <<>>), Val("I64", 0, FALSE, <<>>, <<>>),
     Val("U64", 9, FALSE, <<>>, <<>>),
     Val("Bool", 0, TRUE, <<>>, <<>>), Val("Bool", 0, FALSE, <<>>, <<>>),
     Val("Str", 0, FALSE, <<97, 98, 99>>, <<>>), Val("Str", 0, FALSE, <<226, 130, 172>>, <<>>),
     Val("DateTime", 0, FALSE, <<>>, <<2025, 8, 28, 15, 12, 34, 987654321>>),
     Val("DateTime", 0, FALSE, <<>>, <<1970, 1, 2, 3, 4, 59, 1999999999>>),
     Val("DateTime", 0, FALSE, <<>>, <<70000, 1, 1, 0, 0, 0, 999>>),
     Val("Bin", 0, FALSE, <<0, 255, 16>>, <<>>),
     Val("Null", 0, FALSE, <<>>, <<>>)}

RECURSIVE SeqsUpTo(_, _)
SeqsUpTo(S, n) ==
    IF n = 0 THEN {<<>>}
    ELSE SeqsUpTo(S, n - 1) \cup {Append(q, x) : q \in {r \in SeqsUpTo(S, n - 1) : Len(r) = n - 1}, x \in S}

DbConversions ==
    {[handler |-> "to_mysql_params", params |-> ps] : ps \in SeqsUpTo(DbParams, MaxParams)}

RowValues ==
    {Val("I64", -5, FALSE, <<>>, <<>>), Val("I64", 0, FALSE, <<>>, <<>>),
     Val("I64", 7, FALSE, <<>>, <<>>), Val("U64", 0, FALSE, <<>>, <<>>),
     Val("U64", 9, FALSE, <<>>, <<>>), Val("F32", 1, FALSE, <<>>, <<>>),
     Val("F64", 3, FALSE, <<>>, <<>>), Val("Bool", 0, TRUE, <<>>, <<>>),
     Val("Bool", 0, FALSE, <<>>, <<>>), Val("Str", 0, FALSE, <<48>>, <<>>),
     Val("Str", 0, FALSE, <<49>>, <<>>), Val("Str", 0, FALSE, <<116, 114, 117, 101>>, <<>>),
     Val("Str", 0, FALSE, <<>>, <<>>),
     Val("DateTime", 0, FALSE, <<>>, <<2025, 8, 28, 15, 12, 34, 0>>),
     Val("Bin", 0, FALSE, <<1, 2, 3>>, <<>>),
     Val("Bin", 0, FALSE, [i \in 1..16 |-> i], <<>>),
     Val("Null", 0, FALSE, <<>>, <<>>)}

RowAccessors ==
    {"get_u64", "get_i64", "get_f32", "get_f64", "get_bool", "get_string", "get_datetime",
     "get_bin", "get_uuid", "get_string_opt", "get_datetime_opt"}

RowAccesses ==
    {[handler |-> "row", accessor |-> a, row |-> [c \in {"col"} |-> v], key |-> k] :
        a \in RowAccessors, v \in RowValues, k \in {"col", "missing"}}

\* single parameters of every variant of Param, the floats among them
DbBindings ==
    {[handler |-> "to_mysql_value", param |-> p] :
        p \in DbParams \cup {Val("F32", 1, FALSE, <<>>, <<>>), Val("F64", 3, FALSE, <<>>, <<>>)}}

\* values the driver returns for one column: date-times with valid and
\* invalid parts, byte buffers, floats, times, integers and NULL
DriverValues ==
    {Val("Date", 0, FALSE, <<>>, <<y, m, d, hh, mi, ss, us>>) :
        y \in {0, 1970, 2024, 2025}, m \in {0, 2, 12, 13}, d \in {0, 1, 29, 31, 32},
        hh \in {0, 23, 24}, mi \in {0, 59, 60}, ss \in {0, 59, 60}, us \in {0, 999999}}
    \cup {Val("Bytes", 0, FALSE, b, <<>>) :
            b \in {<<>>, <<97, 98>>, <<226, 130, 172>>, <<97, 255, 98>>, <<226, 130>>, <<240, 159, 65>>}}
    \cup {Val("Float", 2, FALSE, <<>>, <<>>), Val("Double", 15, FALSE, <<>>, <<>>),
          Val("Time", 1, TRUE, <<>>, <<12, 34, 56, 789012>>),
          Val("Time", 0, FALSE, <<>>, <<1, 2, 3, 0>>),
          Val("Int", -4, FALSE, <<>>, <<>>), Val("UInt", 4, FALSE, <<>>, <<>>),
          Val("NULL", 0, FALSE, <<>>, <<>>)}

DbDecodings ==
    {[handler |-> "row_from_mysql", cells |-> <<<<"col", v>>>>] : v \in DriverValues}

\* byte strings bound as Param::Bin and read back: the 16 bytes of a UUID
\* (not valid UTF-8, and in ASCII only), and shorter ones
DbRoundTrips ==
    {[handler |-> "bin_round_trip", b |-> b] :
        b \in {[i \in 1..16 |-> 240 + i - 1], [i \in 1..16 |-> 64 + i],
               <<0, 255, 16>>, <<97, 98, 99>>, <<>>}}

InitDb ==
    /\ cfg \in {c \in DefaultConfigs : c.secret = SecretOf(1)}
    /\ req \in {Some(r) : r \in DbConversions} \cup {Some(r) : r \in RowAccesses}
                  \cup {Some(r) : r \in DbBindings} \cup {Some(r) : r \in DbDecodings}
                  \cup {Some(r) : r \in DbRoundTrips}
    /\ pc = "start"
    /\ events = <<>>
    /\ user = None
    /\ store = {}
    /\ resp = None
    /\ TokenIdle /\ CsrfIdle /\ JwtIdle

ToMysqlParams ==
    /\ pc = "start" /\ Rq.handler = "to_mysql_params"
    /\ resp' = Some(to_mysql_params(Rq.params))
    /\ pc' = "done"
    /\ UNCHANGED <<cfg, req, events, user, store, tokenVars, csrfVars, jwtVars>>

\* one call of a typed accessor of Row
RowAccess ==
    /\ pc = "start" /\ Rq.handler = "row"
    /\ resp' = Some(RowGet(Rq.accessor, Rq.row, Rq.key))
    /\ pc' = "done"
    /\ UNCHANGED <<cfg, req, events, user, store, tokenVars, csrfVars, jwtVars>>

\* one call of to_mysql_value
ToMysqlValue ==
    /\ pc = "start" /\ Rq.handler = "to_mysql_value"
    /\ resp' = Some(to_mysql_value(Rq.param))
    /\ pc' = "done"
    /\ UNCHANGED <<cfg, req, events, user, store, tokenVars, csrfVars, jwtVars>>

\* one call of row_from_mysql on a row the driver returned
RowFromMysql ==
    /\ pc = "start" /\ Rq.handler = "row_from_mysql"
    /\ resp' = Some(row_from_mysql(Rq.cells))
    /\ pc' = "done"
    /\ UNCHANGED <<cfg, req, events, user, store, tokenVars, csrfVars, jwtVars>>

\* b is bound as Param::Bin, the server stores it in a BINARY column and the
\* driver returns the same bytes as a byte buffer; the row is decoded and
\* read with get_bin and get_uuid
BinRoundTrip ==
    /\ pc = "start" /\ Rq.handler = "bin_round_trip"
    /\ LET bound == to_mysql_value(Val("Bin", 0, FALSE, Rq.b, <<>>))
           row == row_from_mysql(<<<<"id", bound>>>>)
       IN resp' = Some([bound |-> bound, row |-> row,
                        get_bin |-> RowGet("get_bin", row, "id"),
                        get_uuid |-> RowGet("get_uuid", row, "id")])
    /\ pc' = "done"
    /\ UNCHANGED <<cfg, req, events, user, store, tokenVars, csrfVars, jwtVars>>

NextDb ==
    \/ ToMysqlParams
    \/ RowAccess
    \/ ToMysqlValue
    \/ RowFromMysql
    \/ BinRoundTrip

SpecDb == InitDb /\ [][NextDb]_vars

-----------------------------------------------------------------------------
(* Claims about the DB adapter *)

Converted == pc = "done" /\ IsSome(req) /\ IsSome(resp) /\ Rq.handler = "to_mysql_params"

Accessed == pc = "done" /\ IsSome(req) /\ IsSome(resp) /\ Rq.handler = "row"
Stored == IF Rq.key \in DOMAIN Rq.row THEN Rq.row[Rq.key] ELSE Val("absent", 0, FALSE, <<>>, <<>>)
KindOf ==
    [a \in RowAccessors \ {"get_string_opt", "get_datetime_opt"} |->
        CASE a = "get_u64" -> {"U64"}
          [] a = "get_i64" -> {"I64"}
          [] a = "get_f32" -> {"F32"}
          [] a = "get_f64" -> {"F64"}
          [] a = "get_bool" -> {"Bool"}
          [] a = "get_string" -> {"String"}
          [] a = "get_datetime" -> {"DateTime"}
          [] a = "get_bin" -> {"Bin"}
          [] a = "get_uuid" -> {"Bin", "valid UUID bytes"}]
\* the stored variant each plain accessor accepts
TagOf ==
    [a \in {"get_i64", "get_f32", "get_f64", "get_string", "get_datetime", "get_bin"} |->
        CASE a = "get_i64" -> "I64"
          [] a = "get_f32" -> "F32"
          [] a = "get_f64" -> "F64"
          [] a = "get_string" -> "Str"
          [] a = "get_datetime" -> "DateTime"
          [] a = "get_bin" -> "Bin"]

\* C19: get_u64 returns the value for U64 and for I64 >= 0 and fails for a
\* negative I64; get_bool returns the boolean for Bool, v # 0 for I64 and U64,
\* false and true for the strings "0" and "1"; every other stored variant and
\* an absent column make a non-optional accessor fail with the message
\* "column <name> is not <Kind>", the name between backquotes; get_string_opt and get_datetime_opt map a
\* stored Null to None.
ThmC19_RowAccessors ==
    Accessed =>
        LET a == Rq.accessor
            s == Stored
        IN /\ a = "get_u64" =>
                 /\ Rs.ok = (s.tag = "U64" \/ (s.tag = "I64" /\ s.n >= 0))
                 /\ Rs.ok => (Rs.val.tag = "U64" /\ Rs.val.n = s.n)
           /\ a = "get_bool" =>
                 /\ Rs.ok = (s.tag \in {"Bool", "I64", "U64"}
                                \/ (s.tag = "Str" /\ s.bytes \in {<<48>>, <<49>>}))
                 /\ Rs.ok => Rs.val.flag = (CASE s.tag = "Bool" -> s.flag
                                              [] s.tag = "Str" -> s.bytes = <<49>>
                                              [] OTHER -> s.n # 0)
           /\ a \in DOMAIN TagOf =>
                 /\ Rs.ok = (s.tag = TagOf[a])
                 /\ Rs.ok => Rs.val = s
           /\ a = "get_uuid" =>
                 Rs.ok = (s.tag = "Bin" /\ Len(s.bytes) = 16)
           /\ (a \in DOMAIN KindOf /\ ~Rs.ok) =>
                 \E k \in KindOf[a] : Rs.err = <<"column ", BACKQUOTE, Rq.key, BACKQUOTE, " is not ", k>>
           /\ (a \in {"get_string_opt", "get_datetime_opt"} /\ s.tag = "Null") =>
                 (Rs.ok /\ Rs.val.tag = "None")
           /\ Rs.ok \/ Rs.err # <<>>

\* get_u64 on a negative I64 failed with the message of the claim
WitC19_NegativeI64 ==
    /\ Accessed /\ Rq.accessor = "get_u64" /\ Rq.key = "col"
    /\ Rq.row["col"].tag = "I64" /\ Rq.row["col"].n = -5
    /\ ~Rs.ok /\ Rs.err = <<"column ", BACKQUOTE, "col", BACKQUOTE, " is not ", "U64">>
-----------------------------------------------------------------------------
(* SpecInsert: concurrent callers of exec_returning_last_insert_id over the
   shared pool.  store is the pool and the server: the idle connections, the
   LAST_INSERT_ID() of each connection's session, and the rows of the table
   by their AUTO_INCREMENT id; events is the server's log of statements; pc
   and resp are per caller *)

\* callers sharing the Arc<Pool>
NumCallers == 3
\* connections of the pool
NumConns == 2

Callers == 1..NumCallers
Conns == 1..NumConns

\* params_in of caller c: the caller's own number, so a row tells who wrote it
InsertParams(c) == <<Val("I64", c, FALSE, <<>>, <<>>)>>

\* mutant: the connection is released after the statement and the query asks
\* the pool again
query_conn_reacquired(held, idle) ==
    CHOOSE k \in idle \cup {held} : \A j \in idle \cup {held} : k <= j

\* the connection conn.query_first runs on: the conn of the let binding, the
\* one exec_drop ran on
query_conn(held, idle) == held

\* the sessions' LAST_INSERT_ID() are 0 on a fresh connection, or the id of the
\* row an earlier call inserted through it
InitInsert ==
    /\ cfg \in {c \in DefaultConfigs : c.secret = SecretOf(1)}
    /\ req = Some([handler |-> "exec_returning_last_insert_id",
                   sql |-> "INSERT INTO t (v) VALUES (?)"])
    /\ pc = [c \in Callers |-> [at |-> "start", conn |-> 0, id |-> 0]]
    /\ events = <<>>
    /\ user = None
    /\ store \in {[idle |-> Conns, last |-> l,
                   rows |-> <<[by |-> 0, v |-> to_mysql_params(InsertParams(0)).v]>>] :
                     l \in [Conns -> {0, 1}]}
    /\ resp = [c \in Callers |-> None]
    /\ TokenIdle /\ CsrfIdle /\ JwtIdle

\* self.pool.get_conn(): an idle connection is taken from the pool
GetConn(c) ==
    /\ pc[c].at = "start"
    /\ \E k \in store.idle :
          /\ store' = [store EXCEPT !.idle = @ \ {k}]
          /\ pc' = [pc EXCEPT ![c] = [at |-> "held", conn |-> k, id |-> 0]]
    /\ UNCHANGED <<cfg, req, events, user, resp, tokenVars, csrfVars, jwtVars>>

\* self.pool.get_conn() fails (the wait for a connection timed out, or the
\* server refused): "get_conn failed"
GetConnError(c) ==
    /\ pc[c].at = "start"
    /\ pc' = [pc EXCEPT ![c].at = "done"]
    /\ resp' = [resp EXCEPT ![c] = Some([ok |-> FALSE, id |-> 0, err |-> "get_conn failed"])]
    /\ UNCHANGED <<cfg, req, events, user, store, tokenVars, csrfVars, jwtVars>>

\* conn.exec_drop(sql, params): the server inserts the row under the next
\* AUTO_INCREMENT id and records the id in the session of the connection
ExecDrop(c) ==
    /\ pc[c].at = "held"
    /\ LET id == Len(store.rows) + 1
       IN /\ store' = [store EXCEPT
                          !.rows = Append(@, [by |-> c, v |-> to_mysql_params(InsertParams(c)).v]),
                          !.last[pc[c].conn] = id]
          /\ events' = Append(events, [stmt |-> "insert", by |-> c, conn |-> pc[c].conn])
    /\ pc' = [pc EXCEPT ![c].at = "executed"]
    /\ UNCHANGED <<cfg, req, user, resp, tokenVars, csrfVars, jwtVars>>

\* conn.exec_drop fails: no row, the session's LAST_INSERT_ID() stays, the
\* error is returned and conn is dropped back into the pool
ExecDropError(c) ==
    /\ pc[c].at = "held"
    /\ store' = [store EXCEPT !.idle = @ \cup {pc[c].conn}]
    /\ pc' = [pc EXCEPT ![c] = [at |-> "done", conn |-> 0, id |-> 0]]
    /\ resp' = [resp EXCEPT ![c] = Some([ok |-> FALSE, id |-> 0, err |-> "exec_drop failed"])]
    /\ UNCHANGED <<cfg, req, events, user, tokenVars, csrfVars, jwtVars>>

\* conn.query_first("SELECT LAST_INSERT_ID()"): the id of the session
QueryFirst(c) ==
    /\ pc[c].at = "executed"
    /\ LET k == query_conn(pc[c].conn, store.idle)
       IN /\ pc' = [pc EXCEPT ![c] = [at |-> "queried", conn |-> pc[c].conn, id |-> store.last[k]]]
          /\ events' = Append(events, [stmt |-> "select", by |-> c, conn |-> k])
    /\ UNCHANGED <<cfg, req, user, store, resp, tokenVars, csrfVars, jwtVars>>

\* conn.query_first fails: "query_first(LAST_INSERT_ID()) failed", conn is
\* dropped back into the pool
QueryFirstError(c) ==
    /\ pc[c].at = "executed"
    /\ store' = [store EXCEPT !.idle = @ \cup {pc[c].conn}]
    /\ pc' = [pc EXCEPT ![c] = [at |-> "done", conn |-> 0, id |-> 0]]
    /\ resp' = [resp EXCEPT ![c] = Some([ok |-> FALSE, id |-> 0,
                                          err |-> "query_first(LAST_INSERT_ID()) failed"])]
    /\ UNCHANGED <<cfg, req, events, user, tokenVars, csrfVars, jwtVars>>

\* Ok(id): the function returns and conn, going out of scope, is back in the pool
InsertReturn(c) ==
    /\ pc[c].at = "queried"
    /\ store' = [store EXCEPT !.idle = @ \cup {pc[c].conn}]
    /\ pc' = [pc EXCEPT ![c] = [at |-> "done", conn |-> 0, id |-> pc[c].id]]
    /\ resp' = [resp EXCEPT ![c] = Some([ok |-> TRUE, id |-> pc[c].id, err |-> ""])]
    /\ UNCHANGED <<cfg, req, events, user, tokenVars, csrfVars, jwtVars>>

NextInsert ==
    \E c \in Callers :
        \/ GetConn(c)
        \/ GetConnError(c)
        \/ ExecDrop(c)
        \/ ExecDropError(c)
        \/ QueryFirst(c)
        \/ QueryFirstError(c)
        \/ InsertReturn(c)

SpecInsert == InitInsert /\ [][NextInsert]_vars

-----------------------------------------------------------------------------
(* Claims about exec_returning_last_insert_id *)

Inserting == IsSome(req) /\ Rq.handler = "exec_returning_last_insert_id"
Holding(c) == pc[c].at \in {"held", "executed", "queried"}

\* C20: exec_returning_last_insert_id returns the id of the row its own
\* statement inserted: from the statement to the query the caller keeps one
\* connection that is neither idle in the pool nor held by another caller, and
\* with concurrent callers each receives the id of its own row.
ThmC20_OwnInsertId ==
    Inserting =>
        \A c \in Callers :
            /\ Holding(c) =>
                  /\ pc[c].conn \notin store.idle
                  /\ \A d \in Callers \ {c} : Holding(d) => pc[d].conn # pc[c].conn
            /\ pc[c].at = "queried" =>
                  (pc[c].id \in 1..Len(store.rows) /\ store.rows[pc[c].id].by = c)
            /\ (IsSome(resp[c]) /\ Unwrap(resp[c]).ok) =>
                  LET id == Unwrap(resp[c]).id
                  IN /\ id \in 1..Len(store.rows)
                     /\ store.rows[id].by = c
                     /\ store.rows[id].v = to_mysql_params(InsertParams(c)).v

\* caller 2 inserted between the insert and the query of caller 1, and caller 1
\* was returned the id of its own row, not the latest one
WitC20_Interleaved ==
    /\ Inserting
    /\ \E i, j, k \in 1..Len(events) :
          /\ i < j /\ j < k
          /\ events[i].stmt = "insert" /\ events[i].by = 1
          /\ events[j].stmt = "insert" /\ events[j].by = 2
          /\ events[k].stmt = "select" /\ events[k].by = 1
    /\ IsSome(resp[1]) /\ Unwrap(resp[1]).ok
    /\ store.rows[Unwrap(resp[1]).id].by = 1
    /\ Unwrap(resp[1]).id < Len(store.rows)
-----------------------------------------------------------------------------
(* SpecPort: concurrent calls of the four operations of impl Db for MySqlDb
   over the shared pool.  store is the pool and what the server saw: the idle
   connections, and per caller the connections it took and the executions of
   its statement; pc and resp are per caller *)

PortOps == <<"fetch_one", "fetch_all", "exec", "exec_returning_last_insert_id">>

\* mutant: the connection of a failed call stays checked out
drop_conn_leak_on_error(idle, conn, failed) ==
    IF failed THEN idle ELSE idle \cup {conn}

\* the PooledConn bound by let mut conn goes out of scope, at the return and
\* at every ? that bails: it is back in the pool
drop_conn(idle, conn, failed) == idle \cup {conn}

\* caller c calls the operation number ((c + k) mod 4) + 1, for every k
InitPort ==
    /\ cfg \in {c \in DefaultConfigs : c.secret = SecretOf(1)}
    /\ req \in {Some([handler |-> "port",
                      op |-> [c \in Callers |-> PortOps[((c + k) % 4) + 1]]]) : k \in 0..3}
    /\ pc = [c \in Callers |-> [at |-> "start", conn |-> 0]]
    /\ events = <<>>
    /\ user = None
    /\ store = [idle |-> Conns,
                taken |-> [c \in Callers |-> 0],
                attempts |-> [c \in Callers |-> 0]]
    /\ resp = [c \in Callers |-> None]
    /\ TokenIdle /\ CsrfIdle /\ JwtIdle

\* self.pool.get_conn(): an idle connection is taken from the pool
PortGetConn(c) ==
    /\ pc[c].at = "start"
    /\ \E k \in store.idle :
          /\ store' = [store EXCEPT !.idle = @ \ {k}, !.taken[c] = @ + 1]
          /\ pc' = [pc EXCEPT ![c] = [at |-> "held", conn |-> k]]
    /\ UNCHANGED <<cfg, req, events, user, resp, tokenVars, csrfVars, jwtVars>>

\* self.pool.get_conn() fails: "get_conn failed", nothing was taken
PortGetConnError(c) ==
    /\ pc[c].at = "start"
    /\ pc' = [pc EXCEPT ![c].at = "done"]
    /\ resp' = [resp EXCEPT ![c] = Some([ok |-> FALSE, err |-> "get_conn failed"])]
    /\ UNCHANGED <<cfg, req, events, user, store, tokenVars, csrfVars, jwtVars>>

\* conn.exec_first, conn.exec or conn.exec_drop runs the caller's statement;
\* fetch_one, fetch_all and exec return from here
PortExecute(c) ==
    /\ pc[c].at = "held"
    /\ IF Rq.op[c] = "exec_returning_last_insert_id"
       THEN /\ store' = [store EXCEPT !.attempts[c] = @ + 1]
            /\ pc' = [pc EXCEPT ![c].at = "executed"]
            /\ resp' = resp
       ELSE /\ store' = [store EXCEPT !.attempts[c] = @ + 1,
                                      !.idle = drop_conn(@, pc[c].conn, FALSE)]
            /\ pc' = [pc EXCEPT ![c] = [at |-> "done", conn |-> 0]]
            /\ resp' = [resp EXCEPT ![c] = Some([ok |-> TRUE, err |-> ""])]
    /\ UNCHANGED <<cfg, req, events, user, tokenVars, csrfVars, jwtVars>>

\* the statement fails: the error is printed, log_who_where asks the same
\* conn, res.context(..)? returns the error; the statement is not run again
PortExecuteError(c) ==
    /\ pc[c].at = "held"
    /\ store' = [store EXCEPT !.attempts[c] = @ + 1,
                              !.idle = drop_conn(@, pc[c].conn, TRUE)]
    /\ pc' = [pc EXCEPT ![c] = [at |-> "done", conn |-> 0]]
    /\ resp' = [resp EXCEPT ![c] = Some([ok |-> FALSE, err |-> "statement failed"])]
    /\ UNCHANGED <<cfg, req, events, user, tokenVars, csrfVars, jwtVars>>

\* exec_returning_last_insert_id: conn.query_first("SELECT LAST_INSERT_ID()")
\* on the same conn, then Ok(id), or the error of the query or of a NULL id
PortLastInsertId(c) ==
    /\ pc[c].at = "executed"
    /\ \E failed \in BOOLEAN :
          /\ store' = [store EXCEPT !.idle = drop_conn(@, pc[c].conn, failed)]
          /\ resp' = [resp EXCEPT ![c] =
                         Some([ok |-> ~failed,
                               err |-> IF failed THEN "query_first(LAST_INSERT_ID()) failed" ELSE ""])]
    /\ pc' = [pc EXCEPT ![c] = [at |-> "done", conn |-> 0]]
    /\ UNCHANGED <<cfg, req, events, user, tokenVars, csrfVars, jwtVars>>

NextPort ==
    \E c \in Callers :
        \/ PortGetConn(c)
        \/ PortGetConnError(c)
        \/ PortExecute(c)
        \/ PortExecuteError(c)
        \/ PortLastInsertId(c)

SpecPort == InitPort /\ [][NextPort]_vars

-----------------------------------------------------------------------------
(* Claims about the port operations *)

PortCalls == IsSome(req) /\ Rq.handler = "port"

\* C21: each of fetch_one, fetch_all, exec and exec_returning_last_insert_id
\* takes exactly one connection from the shared pool and has released it when
\* it returns, on success and on every error, and runs the caller's statement
\* once at most (no retry): when all calls of an interleaving have returned,
\* no connection is checked out.
ThmC21_OneConnectionReleased ==
    PortCalls =>
        /\ \A c \in Callers :
              /\ store.taken[c] <= 1 /\ store.attempts[c] <= 1
              /\ IsSome(resp[c]) =>
                    /\ pc[c].at = "done"
                    /\ store.taken[c] = (IF Unwrap(resp[c]).err = "get_conn failed" THEN 0 ELSE 1)
                    /\ store.attempts[c] = store.taken[c]
              /\ pc[c].at \in {"held", "executed"} => pc[c].conn \notin store.idle
        /\ store.idle = Conns \ {pc[c].conn : c \in {d \in Callers : pc[d].at \in {"held", "executed"}}}
        /\ (\A c \in Callers : IsSome(resp[c])) => store.idle = Conns

\* all calls returned, one of each outcome among them: a success, a failed
\* statement, and every connection is idle again
WitC21_AllReturned ==
    /\ PortCalls
    /\ \A c \in Callers : IsSome(resp[c])
    /\ \E c \in Callers : Unwrap(resp[c]).ok
    /\ \E c \in Callers : Unwrap(resp[c]).err = "statement failed"
    /\ \E c \in Callers : Unwrap(resp[c]).err = "query_first(LAST_INSERT_ID()) failed"
    /\ store.idle = Conns
-----------------------------------------------------------------------------
(* SpecConfig: a CsrfConfig is constructed, the process environment changes,
   and is_enabled is asked.  store is the process environment and how the
   configuration under cfg was made; resp is the last answer of is_enabled *)

\* is_truthy: trimmed and lower-cased, one of "1", "true", "yes", "on"
is_truthy(s) ==
    ToAsciiLowercase(Trim(s)) \in {<<49>>, <<116, 114, 117, 101>>, <<121, 101, 115>>, <<111, 110>>}

\* derive_secret_from_string: the SHA-256 digest of the string; the k-th
\* secret string has the k-th digest
derive_secret_from_string(k) == SecretOf(k)

\* CsrfConfig::from_env_with: get is the provider, a map from the three names
\* to Option values; rnd is what random_secret() draws
from_env_with(get, rnd) ==
    [secret |-> IF IsSome(get.CSRF_SECRET)
                THEN derive_secret_from_string(Unwrap(get.CSRF_SECRET)) ELSE rnd,
     cookie_secure |-> IF IsSome(get.CSRF_COOKIE_SECURE)
                       THEN is_truthy(Unwrap(get.CSRF_COOKIE_SECURE)) ELSE TRUE,
     cookie_http_only |-> IF IsSome(get.CSRF_COOKIE_HTTPONLY)
                          THEN is_truthy(Unwrap(get.CSRF_COOKIE_HTTPONLY)) ELSE TRUE]

\* CsrfConfig::is_enabled: std_env::var("CSRF_SECRET").is_ok() on the process
\* environment of the moment; self is not read
is_enabled(self, env) == IsSome(env.CSRF_SECRET)

\* environments and providers: the secret string absent or the k-th one, the
\* flags absent or a string
EnvMaps ==
    [CSRF_SECRET : {None} \cup {Some(k) : k \in 1..NumSecrets},
     CSRF_COOKIE_SECURE : {None, Some(<<102, 97, 108, 115, 101>>), Some(<<32, 79, 110, 32>>)},
     CSRF_COOKIE_HTTPONLY : {None, Some(<<48>>)}]

\* the configuration was made by from_env (the provider is the process
\* environment), by from_env_with and a provider of its own, or by a struct
\* literal around a derived or a random secret
InitConfig ==
    /\ \E env \in EnvMaps, get \in EnvMaps, rnd \in Secrets,
          how \in {"from_env", "from_env_with", "literal"} :
          /\ how = "from_env" => get = env
          /\ how = "literal" => (get.CSRF_COOKIE_SECURE = None /\ get.CSRF_COOKIE_HTTPONLY = None)
          /\ cfg = from_env_with(get, rnd)
          /\ store = [env |-> env, how |-> how, explicit |-> IsSome(get.CSRF_SECRET)]
    /\ req = Some([handler |-> "config"])
    /\ pc = "built"
    /\ events = <<>>
    /\ user = None
    /\ resp = None
    /\ TokenIdle /\ CsrfIdle /\ JwtIdle

\* the process sets CSRF_SECRET (std::env::set_var, temp_env::with_vars)
ConfigSetVar ==
    /\ \E k \in 1..NumSecrets :
          /\ store.env.CSRF_SECRET # Some(k)
          /\ store' = [store EXCEPT !.env.CSRF_SECRET = Some(k)]
    /\ UNCHANGED <<cfg, req, pc, events, user, resp, tokenVars, csrfVars, jwtVars>>

\* the process removes CSRF_SECRET
ConfigRemoveVar ==
    /\ IsSome(store.env.CSRF_SECRET)
    /\ store' = [store EXCEPT !.env.CSRF_SECRET = None]
    /\ UNCHANGED <<cfg, req, pc, events, user, resp, tokenVars, csrfVars, jwtVars>>

\* cfg.is_enabled()
ConfigIsEnabled ==
    /\ pc \in {"built", "asked"}
    /\ pc' = "asked"
    /\ resp' = Some([enabled |-> is_enabled(cfg, store.env), env |-> store.env])
    /\ UNCHANGED <<cfg, req, events, user, store, tokenVars, csrfVars, jwtVars>>

NextConfig ==
    \/ ConfigSetVar
    \/ ConfigRemoveVar
    \/ ConfigIsEnabled

SpecConfig == InitConfig /\ [][NextConfig]_vars

-----------------------------------------------------------------------------
(* Claims about the configuration *)

\* C22: is_enabled returns true exactly when the secret of the configuration
\* came from an explicitly provided CSRF_SECRET and false when it was drawn at
\* random, for every way of constructing the configuration and whatever the
\* process environment became afterwards.
CexC22_EnabledIffExplicit ==
    (IsSome(req) /\ Rq.handler = "config" /\ pc = "asked") =>
        Rs.enabled = store.explicit
-----------------------------------------------------------------------------
(* SpecResize: resize_fit applied to the dimensions of a decoded image.
   req holds the dimensions and the limits, resp the dimensions of the result *)

\* largest width, height and limit drawn
MaxDim == 6

MaxOf(a, b) == IF a >= b THEN a ELSE b

\* f64 round of the quotient a / b, halves away from zero
RoundDiv(a, b) == (2 * a + b) \div (2 * b)

\* DynamicImage::resize(nwidth, nheight, filter): the aspect ratio is kept and
\* the image is scaled by the smaller of nwidth / width and nheight / height,
\* each side rounded and at least 1
resize_dimensions(width, height, nwidth, nheight) ==
    IF nwidth * height <= nheight * width
    THEN <<MaxOf(RoundDiv(width * nwidth, width), 1), MaxOf(RoundDiv(height * nwidth, width), 1)>>
    ELSE <<MaxOf(RoundDiv(width * nheight, height), 1), MaxOf(RoundDiv(height * nheight, height), 1)>>

\* mutant: resize without the guard, so a small image is scaled up
resize_fit_always(w, h, max_w, max_h) ==
    resize_dimensions(w, h, max_w, max_h)

\* resize_fit, on the dimensions: an image within both limits is returned as
\* it is, any other is resized to fit
resize_fit(w, h, max_w, max_h) ==
    IF w <= max_w /\ h <= max_h THEN <<w, h>>
    ELSE resize_dimensions(w, h, max_w, max_h)

\* a decoded image has at least one pixel each way; the limits are any u32
InitResize ==
    /\ cfg \in {c \in DefaultConfigs : c.secret = SecretOf(1)}
    /\ req \in {Some([handler |-> "resize_fit", w |-> w, h |-> h, max_w |-> mw, max_h |-> mh]) :
                   w \in 1..MaxDim, h \in 1..MaxDim, mw \in 0..MaxDim, mh \in 0..MaxDim}
    /\ pc = "start"
    /\ events = <<>>
    /\ user = None
    /\ store = {}
    /\ resp = None
    /\ TokenIdle /\ CsrfIdle /\ JwtIdle

ResizeFit ==
    /\ pc = "start" /\ Rq.handler = "resize_fit"
    /\ resp' = Some(resize_fit(Rq.w, Rq.h, Rq.max_w, Rq.max_h))
    /\ pc' = "done"
    /\ UNCHANGED <<cfg, req, events, user, store, tokenVars, csrfVars, jwtVars>>

SpecResize == InitResize /\ [][ResizeFit]_vars

-----------------------------------------------------------------------------
(* Claims about resize_fit *)

Resized == pc = "done" /\ IsSome(req) /\ IsSome(resp) /\ Rq.handler = "resize_fit"

\* C23 as stated: for every input size (w, h) and limits (max_w, max_h), an
\* image within the limits keeps its dimensions, and any other comes out with
\* w' <= max_w, h' <= max_h, w' <= w and h' <= h.
CexC23_FitsEveryLimit ==
    Resized =>
        IF Rq.w <= Rq.max_w /\ Rq.h <= Rq.max_h
        THEN Rs = <<Rq.w, Rq.h>>
        ELSE /\ Rs[1] <= Rq.max_w /\ Rs[2] <= Rq.max_h
             /\ Rs[1] <= Rq.w /\ Rs[2] <= Rq.h

\* C23, amended: for every input size and limits of at least 1 each way, an
\* image within the limits keeps its dimensions, and any other comes out with
\* w' <= max_w, h' <= max_h, w' <= w and h' <= h.
ThmC23_FitsPositiveLimits ==
    (Resized /\ Rq.max_w >= 1 /\ Rq.max_h >= 1) =>
        IF Rq.w <= Rq.max_w /\ Rq.h <= Rq.max_h
        THEN Rs = <<Rq.w, Rq.h>>
        ELSE /\ Rs[1] <= Rq.max_w /\ Rs[2] <= Rq.max_h
             /\ Rs[1] <= Rq.w /\ Rs[2] <= Rq.h

\* a 6 x 1 image under the limits 2 x 2 came out 2 x 1
WitC23_WideImageShrunk ==
    /\ Resized /\ Rq.w = 6 /\ Rq.h = 1 /\ Rq.max_w = 2 /\ Rq.max_h = 2
    /\ Rs = <<2, 1>>
-----------------------------------------------------------------------------
(* web/spa/entry.rs *)

\* the marker of the template, "{{ csrf_token }}"
MARKER == <<123, 123, 32, 99, 115, 114, 102, 95, 116, 111, 107, 101, 110, 32, 125, 125>>

\* str::find: the first position where pat starts in str, 0 when nowhere
FindStr(str, pat) ==
    LET hits == {i \in 1..(Len(str) - Len(pat) + 1) : SubSeq(str, i, i + Len(pat) - 1) = pat}
    IN IF hits = {} THEN 0 ELSE CHOOSE i \in hits : \A j \in hits : i <= j

\* str::replace: every occurrence of pat, left to right
RECURSIVE ReplaceStr(_, _, _)
ReplaceStr(str, pat, with) ==
    LET i == FindStr(str, pat)
    IN IF i = 0 THEN str
       ELSE SubSeq(str, 1, i - 1) \o with
                \o ReplaceStr(SubSeq(str, i + Len(pat), Len(str)), pat, with)

\* mutant: a cookie that verifies is kept, as the refresh endpoint does
spa_entry_handler_keep_cookie(c, template_html, j, nonce) ==
    LET token == csrf_handler_token(c, j, nonce)
    IN [jar |-> set_csrf_cookie(j, c, token),
        html |-> ReplaceStr(template_html, MARKER, token)]

\* spa_entry_handler: (jar, Html(html_with_token)), with the nonce
\* rand::random() drew
spa_entry_handler(c, template_html, j, nonce) ==
    LET token == generate_csrf_token(c, nonce)
    IN [jar |-> set_csrf_cookie(j, c, token),
        html |-> ReplaceStr(template_html, MARKER, token)]

-----------------------------------------------------------------------------
(* SpecClient: one browser against the CSRF endpoints under a fixed secret.
   store is the client: its csrf cookie, the tokens it was handed (with the
   number of the operation that handed them out) and the count of nonces
   drawn so far; events is the log of the operations *)

\* operations of one run
MaxOps == 4

\* the page templates served: the marker once, and twice
Templates == {<<60, 109, 32, 99, 61, 34, 123, 123, 32, 99, 115, 114, 102, 95, 116, 111, 107, 101, 110, 32, 125, 125, 34, 62>>, <<123, 123, 32, 99, 115, 114, 102, 95, 116, 111, 107, 101, 110, 32, 125, 125, 124, 123, 123, 32, 99, 115, 114, 102, 95, 116, 111, 107, 101, 110, 32, 125, 125>>}

\* the token a script reads out of the served page: what stands where the
\* first marker of the template stood
Embedded(template_html, html) ==
    LET i == FindStr(template_html, MARKER)
        n == IF FindStr(SubSeq(template_html, i + 1, Len(template_html)), MARKER) = 0 THEN 1 ELSE 2
        len == (Len(html) - Len(template_html)) \div n + Len(MARKER)
    IN SubSeq(html, i, i + len - 1)

ClientEvent(op, token, header, cookie, ok) ==
    [op |-> op, token |-> token, header |-> header, cookie |-> cookie, ok |-> ok]

InitClient ==
    /\ cfg \in {c \in DefaultConfigs : c.secret = SecretOf(1)}
    /\ req \in {Some([handler |-> "client", template |-> t]) : t \in Templates}
    /\ pc = "run"
    /\ events = <<>>
    /\ user = None
    /\ store = [cookie |-> None, held |-> {}, draws |-> 0]
    /\ resp = None
    /\ TokenIdle /\ CsrfIdle /\ JwtIdle

\* generate_csrf_token called on its own; rand::random() draws a nonce it
\* has not drawn before
ClientMint ==
    /\ Len(events) < MaxOps
    /\ LET token == generate_csrf_token(cfg, NonceOf(store.draws + 1))
       IN /\ store' = [store EXCEPT !.draws = store.draws + 1,
                                    !.held = store.held \cup {[token |-> token, n |-> Len(events) + 1]}]
          /\ events' = Append(events, ClientEvent("mint", token, None, None, TRUE))
          /\ resp' = Some(token)
    /\ UNCHANGED <<cfg, req, pc, user, tokenVars, csrfVars, jwtVars>>

\* GET of the issue/refresh endpoint with the client's cookie
ClientRefresh ==
    /\ Len(events) < MaxOps
    /\ LET r == csrf_handler(cfg, RequestJar(store.cookie), NonceOf(store.draws + 1))
           kept == store.cookie = Some(r.csrfToken)
       IN /\ store' = [cookie |-> CookieValue(r.jar),
                       held |-> store.held \cup {[token |-> r.csrfToken, n |-> Len(events) + 1]},
                       draws |-> IF kept THEN store.draws ELSE store.draws + 1]
          /\ events' = Append(events, ClientEvent("refresh", r.csrfToken, None, store.cookie, TRUE))
          /\ resp' = Some(r.csrfToken)
    /\ UNCHANGED <<cfg, req, pc, user, tokenVars, csrfVars, jwtVars>>

\* GET of the SPA entry page with the client's cookie
ClientSpaEntry ==
    /\ Len(events) < MaxOps
    /\ LET r == spa_entry_handler(cfg, Rq.template, RequestJar(store.cookie),
                                  NonceOf(store.draws + 1))
           token == Embedded(Rq.template, r.html)
       IN /\ store' = [cookie |-> CookieValue(r.jar),
                       held |-> store.held \cup {[token |-> token, n |-> Len(events) + 1]},
                       draws |-> store.draws + 1]
          /\ events' = Append(events, ClientEvent("spa", token, None, store.cookie, TRUE))
          /\ resp' = Some(r.html)
    /\ UNCHANGED <<cfg, req, pc, user, tokenVars, csrfVars, jwtVars>>

\* a state-changing request: validate_csrf on a token the client holds as the
\* header and, as the cookie, the client's current one or the one that went
\* with the header when it was handed out
ClientValidate ==
    /\ Len(events) < MaxOps
    /\ \E h \in {t.token : t \in store.held} :
       \E k \in {store.cookie, Some(h)} :
          LET ok == validate_csrf(Some(h), k, cfg)
          IN /\ events' = Append(events, ClientEvent("validate", <<>>, Some(h), k, ok))
             /\ resp' = Some(ok)
    /\ UNCHANGED <<cfg, req, pc, user, store, tokenVars, csrfVars, jwtVars>>

NextClient ==
    \/ ClientMint
    \/ ClientRefresh
    \/ ClientSpaEntry
    \/ ClientValidate

SpecClient == InitClient /\ [][NextClient]_vars

-----------------------------------------------------------------------------
(* Claims about the client's tokens *)

ClientRun == IsSome(req) /\ Rq.handler = "client"

\* the number of the last SPA-entry call of the log, 0 when there was none
LastSpa ==
    LET at == {i \in 1..Len(events) : events[i].op = "spa"}
    IN IF at = {} THEN 0 ELSE CHOOSE i \in at : \A j \in at : j <= i

ThmC29_SpaEntryRotates ==
    (ClientRun /\ LastSpa > 0) =>
        LET new == events[LastSpa].token
        IN /\ store.cookie = Some(new)
           /\ events[LastSpa].cookie # Some(new)
           /\ \A i \in 1..(LastSpa - 1) : events[i].token # new
           /\ \A t \in store.held :
                 t.n < LastSpa => ~validate_csrf(Some(t.token), store.cookie, cfg)
           /\ validate_csrf(Some(new), store.cookie, cfg)

\* the entry page was served to a client whose cookie verified; afterwards the
\* token of the earlier refresh was refused and the embedded one accepted
WitC29_OldRefusedNewAccepted ==
    /\ ClientRun /\ Len(events) = 4
    /\ events[1].op = "refresh"
    /\ events[2].op = "spa" /\ events[2].cookie = Some(events[1].token)
    /\ verify_token(cfg, events[1].token)
    /\ events[3].op = "validate" /\ events[3].header = Some(events[1].token)
    /\ events[3].cookie = store.cookie /\ ~events[3].ok
    /\ events[4].op = "validate" /\ events[4].header = Some(events[2].token)
    /\ events[4].cookie = store.cookie /\ events[4].ok
-----------------------------------------------------------------------------
(* Claims about the decoding of rows and the binding of every variant *)

Decoded == pc = "done" /\ IsSome(req) /\ IsSome(resp) /\ Rq.handler = "row_from_mysql"
DateIn == Rq.cells[1][2].dt
DateOut == Rs["col"].dt
IsDate == Decoded /\ Rq.cells[1][2].tag = "Date"
DateValid == ValidYmd(DateIn[1], DateIn[2], DateIn[3])
TimeValid == ValidHms(DateIn[4], DateIn[5], DateIn[6])

\* C25 as stated: a driver date-time tuple with any invalid component decodes
\* to 1970-01-01 00:00:00, and a fully valid tuple to the date-time of the
\* same year, month, day, hour, minute and second.
CexC25_WholeFallback ==
    IsDate =>
        /\ Rs["col"].tag = "DateTime"
        /\ IF DateValid /\ TimeValid
           THEN SubSeq(DateOut, 1, 6) = SubSeq(DateIn, 1, 6)
           ELSE SubSeq(DateOut, 1, 6) = <<1970, 1, 1, 0, 0, 0>>

\* C25, amended: the date and the time of a driver date-time tuple fall back
\* separately: an invalid year-month-day decodes to the date 1970-01-01 and a
\* valid one to the same date; an invalid hour-minute-second decodes to the
\* time 00:00:00 and a valid one to the same time; so a fully valid tuple
\* keeps its six fields and a fully invalid one is 1970-01-01 00:00:00.
ThmC25_SeparateFallback ==
    IsDate =>
        /\ Rs["col"].tag = "DateTime"
        /\ SubSeq(DateOut, 1, 3) = (IF DateValid THEN SubSeq(DateIn, 1, 3) ELSE <<1970, 1, 1>>)
        /\ SubSeq(DateOut, 4, 6) = (IF TimeValid THEN SubSeq(DateIn, 4, 6) ELSE <<0, 0, 0>>)

\* 2025-02-29 23:59:59 has no such day: it decoded to 1970-01-01 23:59:59
WitC25_InvalidDayKeepsTime ==
    /\ IsDate /\ SubSeq(DateIn, 1, 6) = <<2025, 2, 29, 23, 59, 59>>
    /\ SubSeq(DateOut, 1, 6) = <<1970, 1, 1, 23, 59, 59>>

\* C26: to_mysql_value is total over Param: each of I64, U64, F32, F64, Bool,
\* Str, DateTime, Bin and Null has a driver binding.
CexC26_EveryVariantBound ==
    (pc = "done" /\ IsSome(req) /\ IsSome(resp) /\ Rq.handler = "to_mysql_value") =>
        Rs.tag \in {"Int", "UInt", "Float", "Double", "Bytes", "Date", "NULL"}

\* C27: a byte string bound as Param::Bin and returned by the driver as a
\* byte buffer is decoded to a cell from which get_bin returns the bytes and,
\* for 16 bytes, get_uuid the UUID, also when the bytes are not valid UTF-8.
CexC27_BinaryRoundTrip ==
    (pc = "done" /\ IsSome(req) /\ IsSome(resp) /\ Rq.handler = "bin_round_trip") =>
        /\ Rs.get_bin.ok /\ Rs.get_bin.val.bytes = Rq.b
        /\ Len(Rq.b) = 16 => (Rs.get_uuid.ok /\ Rs.get_uuid.val.bytes = Rq.b)
-----------------------------------------------------------------------------
(* SpecUploads: two uploads of the same file name and content type at once.
   Each call of UploadService::upload computes its key and hands it to the
   storage, whose fs::write runs in the steps of SpecStorage *)

\* the call of upload number u: Uuid::new_v4() gives each call its own id
UploadOf(svc, filename, content_type, bytes, u) ==
    upload(svc, {}, filename, content_type, bytes, <<117, 48 + u>>, EDGE_YYYYMM)

InitUploads ==
    /\ cfg \in {c \in DefaultConfigs : c.secret = SecretOf(1)}
    /\ \E n \in {S_readme, <<32, 32>>, <<32, 97, 47, 98, 32>>},
          t \in {S_text_plain, S_image_png},
          b \in {<<<<1, 2, 3>>, <<7, 8>>>>, <<<<1, 2>>, <<7, 8>>>>, <<<<1>>, <<7, 8, 9>>>>} :
          LET svc == EdgeService([kind |-> "image_rs", resize_ok |-> TRUE], FALSE)
              up == [u \in {1, 2} |-> UploadOf(svc, n, t, b[u], u)]
          IN req = Some([handler |-> "storage", root |-> svc.storage.root,
                         saves |-> [u \in {1, 2} |-> [rel_path |-> up[u].saved[1].key,
                                                      bytes |-> up[u].saved[1].bytes]],
                         filename |-> n, content_type |-> t,
                         generic |-> ~is_supported(svc.image, t)])
    /\ pc = [w \in {1, 2} |-> [at |-> "start", off |-> 0]]
    /\ events = <<>>
    /\ user = None
    /\ store = {}
    /\ resp = [w \in {1, 2} |-> None]
    /\ TokenIdle /\ CsrfIdle /\ JwtIdle

SpecUploads == InitUploads /\ [][NextStorage]_vars

\* C28: in the generic branch the key depends on file_dir and the sanitized
\* file name only: two uploads with the same non-empty name, one after the
\* other or at once, get the same key, and once both have completed the
\* storage holds under it exactly the bytes of the one saved last; two uploads
\* in the image branch get different keys.
CexC28_LastUploadWins ==
    (Storing /\ "generic" \in DOMAIN Rq) =>
        /\ (Rq.generic /\ Trim(Rq.filename) # <<>>) =>
              /\ Rq.saves[1].rel_path = Rq.saves[2].rel_path
              /\ (\A w \in {1, 2} : IsSome(resp[w]) /\ Unwrap(resp[w]).ok) =>
                    \E f \in store :
                       /\ f.path = Unwrap(resp[1]).abs
                       /\ f.path = Unwrap(resp[2]).abs
                       /\ f.bytes \in {Rq.saves[1].bytes, Rq.saves[2].bytes}
        /\ ~Rq.generic => Rq.saves[1].rel_path # Rq.saves[2].rel_path
-----------------------------------------------------------------------------
(* Claims about the unset JWT secret *)

\* AppConfig::from_env: env::var("JWT_SECRET").unwrap_or_else(|_| "".to_string())
app_jwt_secret(env_value) == IF IsSome(env_value) THEN Unwrap(env_value) ELSE <<>>

\* C30: when JWT_SECRET is not set, so that AppConfig.jwt_secret is the empty
\* string, the extraction of the principal yields none for every cookie: a
\* token signed with the empty secret is never accepted.
CexC30_UnsetSecretNoPrincipal ==
    (/\ IsSome(jtok) /\ jres.extract # None /\ jres.user # None
     /\ jin.jwt_secret \in {None, Some(app_jwt_secret(None))}) =>
        (Unwrap(jres.extract) = None /\ Unwrap(jres.user) = None)

====
